---- MODULE Spec2Model ----
(***************************************************************************)
(* A model of the WSB page mutation tools of react_agent: the single-call  *)
(* tools of tools.py (create, remove, edit, reorder), the batch tool       *)
(* mutate_components of tools_v2.py, the in-memory batch operations of     *)
(* utils.py (execute_*_operation, prune_by_ids), and the pure functions of *)
(* builder.py (build_component's defaults, normalize_style_fields), the    *)
(* automatic positioning of positioning.py, the query get_components of    *)
(* tools_v2.py, and prune_by_ids once more, statement by statement.        *)
(*                                                                         *)
(* Encoding of Python values:                                              *)
(*   - a str-or-None value is a string, None being the string "None";      *)
(*   - an int-or-None value is <<>> (None or a missing key) or <<n>>;      *)
(*   - a dict-or-None value (relIn, relTo) is <<>> or <<record>>;          *)
(*   - a list-or-missing value (items) is <<>> (no such key) or <<list>>;  *)
(*   - the page's flat items list is a sequence of component records.      *)
(* Components carry the fields the operations read or write: id, kind,     *)
(* orderIndex, wrap, the absolute box, relIn / relTo and the items key.    *)
(***************************************************************************)
EXTENDS Integers, Sequences, FiniteSets, TLC

VARIABLES
    stored,     \* the persisted page's items (page.json on disk)
    pc,         \* "idle", or the batch tool that is running: "v2" | "strict"
    page,       \* the in-memory items of the running batch (<<>> when idle)
    ops,        \* the operations of the running / last batch, in input order
    results,    \* the results list of the running / last batch
    lastSec,    \* mutate_components' last_created_section_id
    pre,        \* history: the document the last step started from
    call,       \* history: the last step (tool, arguments, outcome)
    io          \* the page file: whether it exists, and the loads and writes
                \* of the running / last batch

vars == <<stored, pc, page, ops, results, lastSec, pre, call, io>>

----------------------------------------------------------------------------
(* Bounds of the model *)

MaxItems == 2       \* a create is offered only below this many components
MaxOps == 2         \* operations per batch

----------------------------------------------------------------------------
(* Python values *)

None == "None"
NoInt == <<>>
Some(n) == <<n>>
Val(x) == x[1]
NoRel == <<>>
NoItems == <<>>          \* the component has no "items" key
EmptyItems == <<<<>>>>   \* "items": []

DEFAULT_HEADER_ID == "22FC8C5B-CD71-42B7-9DF2-486F577581A9"

\* ids that contain one of FAKE_ID_PATTERNS ("temp", "anchor", ...)
FakeLookingIds == {"temp-section"}

LooksFake(id) == id \in FakeLookingIds

\* generate_id(): a fresh uuid4; the first unused name of a fixed supply
GenIdSeq == <<"g1", "g2", "g3", "g4", "g5">>

Ids(items) == {items[i].id : i \in 1..Len(items)}

generate_id(items) ==
    GenIdSeq[CHOOSE i \in 1..Len(GenIdSeq) :
                /\ GenIdSeq[i] \notin Ids(items)
                /\ \A j \in 1..(i-1) : GenIdSeq[j] \in Ids(items)]

RelIn(id, l, t, r, b) == <<[id |-> id, left |-> l, top |-> t, right |-> r, bottom |-> b]>>
RelTo(id, below) == <<[id |-> id, below |-> below]>>

----------------------------------------------------------------------------
(* Document store operations (utils.py) *)

get_rel_parent_id(item) ==
    IF item.relIn # NoRel THEN item.relIn[1].id ELSE None

\* index of the first component with this id, 0 when there is none
find_component_by_id(items, id) ==
    IF \E i \in 1..Len(items) : items[i].id = id
    THEN CHOOSE i \in 1..Len(items) :
            /\ items[i].id = id
            /\ \A j \in 1..(i-1) : items[j].id # id
    ELSE 0

\* position of list entry k inside its parent bucket
BucketIndex(items, k) ==
    Cardinality({j \in 1..(k-1) :
                    get_rel_parent_id(items[j]) = get_rel_parent_id(items[k])})

\* renumber_components over a list whose entry k is the object refs[k]: an
\* object listed twice is written twice and keeps the last index written
renumber_refs(items, refs) ==
    [k \in 1..Len(items) |->
        LET last == CHOOSE m \in 1..Len(items) :
                        /\ refs[m] = refs[k]
                        /\ \A n \in (m+1)..Len(items) : refs[n] # refs[k]
        IN [items[k] EXCEPT !.orderIndex = Some(BucketIndex(items, last))]]

renumber_components(items) ==
    renumber_refs(items, [k \in 1..Len(items) |-> k])

InsertAt(items, idx, c) ==
    SubSeq(items, 1, idx - 1) \o <<c>> \o SubSeq(items, idx, Len(items))

\* the insertion place of an insert_component that puts the component after
\* the entry found, whether before_id or after_id named it
insert_index_after(items, before_id, after_id) ==
    LET hits == {i \in 1..Len(items) :
                    items[i].id = before_id \/ items[i].id = after_id}
    IN IF (before_id # None \/ after_id # None) /\ hits # {}
       THEN (CHOOSE i \in hits : \A j \in hits : i <= j) + 1
       ELSE Len(items) + 1

\* where insert_component puts the component: before / after the first entry
\* whose id is before_id or after_id, else at the end
insert_index(items, before_id, after_id) ==
    LET hits == {i \in 1..Len(items) :
                    items[i].id = before_id \/ items[i].id = after_id}
    IN IF (before_id # None \/ after_id # None) /\ hits # {}
       THEN LET idx == CHOOSE i \in hits : \A j \in hits : i <= j
            IN IF items[idx].id = before_id THEN idx ELSE idx + 1
       ELSE Len(items) + 1

insert_component(component, items, before_id, after_id) ==
    InsertAt(items, insert_index(items, before_id, after_id), component)

----------------------------------------------------------------------------
(* Schema validation (signatures.py) *)

\* RelIn / RelTo: id is a required str, the offsets are Optional[int]
ValidRel(rel) == rel = NoRel \/ rel[1].id # None

\* CreateInput(**kwargs): kind is required, nested models must validate
CreateInputValid(kind, relIn, relTo) ==
    /\ kind # None
    /\ ValidRel(relIn)
    /\ ValidRel(relTo)

----------------------------------------------------------------------------
(* Component construction (builder.py) *)

\* build_component: orderIndex starts as None, wrap, the layout and the
\* relational fields are copied from the validated payload; add_items(None)
\* adds no "items" key
build_component(kw, relIn, relTo, new_id) ==
    [id |-> new_id, kind |-> kw.kind, orderIndex |-> NoInt, wrap |-> kw.wrap,
     left |-> kw.left, top |-> kw.top, width |-> kw.width, height |-> kw.height,
     relIn |-> relIn, relTo |-> relTo, items |-> NoItems]

----------------------------------------------------------------------------
(* create (tools.py) and execute_create_operation (utils.py) *)

SectionIdxs(items) == {i \in 1..Len(items) : items[i].kind = "SECTION"}

\* key=lambda s: s.get("orderIndex", -1); built components always hold the key
OrderKey(c) == IF c.orderIndex = NoInt THEN -1 ELSE Val(c.orderIndex)

\* ordering the keys compares None with an int (TypeError) as soon as two
\* sections are compared and one key is None
SortRaises(items) ==
    /\ Cardinality(SectionIdxs(items)) >= 2
    /\ \E i \in SectionIdxs(items) : items[i].orderIndex = NoInt

MaxKeyIdxs(items) ==
    {i \in SectionIdxs(items) :
        \A j \in SectionIdxs(items) : OrderKey(items[j]) <= OrderKey(items[i])}

\* tools.create: sorted(existing_sections, key=...)[-1] (stable sort)
last_section_sorted(items) ==
    IF SectionIdxs(items) = {} THEN 0
    ELSE CHOOSE i \in MaxKeyIdxs(items) : \A j \in MaxKeyIdxs(items) : j <= i

\* utils.execute_create_operation: max(existing_sections, key=...)
last_section_max(items) ==
    IF SectionIdxs(items) = {} THEN 0
    ELSE CHOOSE i \in MaxKeyIdxs(items) : \A j \in MaxKeyIdxs(items) : i <= j

\* the gap measured from the last section's top instead of its bottom
SectionGapFromTop(last, kw) ==
    IF last.top # NoInt /\ last.height # NoInt /\ kw.top # NoInt
    THEN Val(kw.top) - Val(last.top)
    ELSE 0

\* gap = new_top - last_bottom when the three numbers are there, else 0
SectionGap(last, kw) ==
    IF last.top # NoInt /\ last.height # NoInt /\ kw.top # NoInt
    THEN Val(kw.top) - (Val(last.top) + Val(last.height))
    ELSE 0

\* relTo of a SECTION payload after the chaining / anchor substitution
section_rel_to(items, kw, lastIdx) ==
    IF kw.relTo = NoRel
    THEN IF lastIdx # 0
         THEN RelTo(items[lastIdx].id, Some(SectionGap(items[lastIdx], kw)))
         ELSE RelTo(DEFAULT_HEADER_ID, Some(0))
    ELSE IF /\ kw.nested = "dict"
            /\ LooksFake(kw.relTo[1].id)
            /\ kw.relTo[1].id # DEFAULT_HEADER_ID
         THEN RelTo(DEFAULT_HEADER_ID,
                    IF kw.relTo[1].below = NoInt THEN Some(0) ELSE kw.relTo[1].below)
         ELSE kw.relTo

\* the right offset with its sign lost
RelRightWrong(parent, rel_left, width) ==
    Some(parent.width[1] - (rel_left[1] + width[1]))

\* rel_in["right"] = -(parent["width"] - (rel_in["left"] + width))
RelRight(parent, rel_left, width) ==
    Some(-(parent.width[1] - (rel_left[1] + width[1])))

\* rel_in["bottom"] = -(parent["height"] - (rel_in["top"] + height))
RelBottom(parent, rel_top, height) ==
    Some(-(parent.height[1] - (rel_top[1] + height[1])))

\* the relIn dict create computes once the parent is found
computed_rel_in(parent, kw) ==
    LET base == IF kw.relIn # NoRel THEN kw.relIn[1]
                ELSE [id |-> None, left |-> NoInt, top |-> NoInt,
                      right |-> NoInt, bottom |-> NoInt]
        rid == IF base.id = None THEN parent.id ELSE base.id
        l == IF base.left = NoInt /\ kw.left # NoInt /\ parent.left # NoInt
             THEN Some(Val(kw.left) - Val(parent.left)) ELSE base.left
        t == IF base.top = NoInt /\ kw.top # NoInt /\ parent.top # NoInt
             THEN Some(Val(kw.top) - Val(parent.top)) ELSE base.top
        r == IF base.right = NoInt /\ kw.width # NoInt /\ parent.width # NoInt /\ l # NoInt
             THEN RelRight(parent, l, kw.width) ELSE base.right
        b == IF base.bottom = NoInt /\ kw.height # NoInt /\ parent.height # NoInt /\ t # NoInt
             THEN RelBottom(parent, t, kw.height) ELSE base.bottom
    IN RelIn(rid, l, t, r, b)

Failed(items) == [ok |-> FALSE, items |-> items, at |-> 0]

\* The body shared, line for line, by create and execute_create_operation, up
\* to and including insert_component; lastIdx is the section chained to.
\* The outcome is [ok, items, at]: at is the new component's place in items.
create_steps(items, kw, lastIdx) ==
    LET relInIsDict == kw.nested = "dict" /\ kw.relIn # NoRel
        relToIsDict == kw.nested = "dict" /\ kw.relTo # NoRel
        isSection == kw.kind = "SECTION"
        parent_id == IF kw.parent_id = None /\ relInIsDict /\ kw.relIn[1].id # None
                     THEN kw.relIn[1].id ELSE kw.parent_id
        sortError == isSection /\ kw.relTo = NoRel /\ SortRaises(items)
        relTo1 == IF isSection THEN section_rel_to(items, kw, lastIdx) ELSE kw.relTo
        pidx == IF parent_id # None THEN find_component_by_id(items, parent_id) ELSE 0
        unknownParent == parent_id # None /\ pidx = 0
        relIn1 == IF pidx # 0 THEN computed_rel_in(items[pidx], kw)
                  ELSE IF isSection THEN NoRel ELSE kw.relIn
        target == IF relTo1 # NoRel THEN relTo1[1].id ELSE None
        unknownTarget ==
            /\ relToIsDict
            /\ ~isSection
            /\ target # None
            /\ target # DEFAULT_HEADER_ID
            /\ find_component_by_id(items, target) = 0
        relIn2 == IF parent_id # None /\ relIn1 = NoRel
                  THEN RelIn(parent_id, NoInt, NoInt, NoInt, NoInt) ELSE relIn1
        relTo2 == IF relTo1 # NoRel THEN relTo1
                  ELSE IF kw.after_id # None THEN RelTo(kw.after_id, Some(0))
                  ELSE IF kw.before_id # None THEN RelTo(kw.before_id, Some(0))
                  ELSE NoRel
        new_id == IF kw.id # None THEN kw.id ELSE generate_id(items)
        comp == build_component(kw, relIn2, relTo2, new_id)
    IN IF sortError \/ unknownParent \/ unknownTarget
          \/ ~CreateInputValid(kw.kind, relIn1, relTo1)
       THEN Failed(items)
       ELSE [ok |-> TRUE,
             items |-> insert_component(comp, items, kw.before_id, kw.after_id),
             at |-> insert_index(items, kw.before_id, kw.after_id)]

\* tools.create, between load_page and save_page: renumber_components included
create(items, kw) ==
    LET r == create_steps(items, kw, last_section_sorted(items))
    IN IF r.ok THEN [r EXCEPT !.items = renumber_components(r.items)] ELSE r

\* utils.execute_create_operation: no renumbering, no save
execute_create_operation(items, kw) ==
    create_steps(items, kw, last_section_max(items))

----------------------------------------------------------------------------
(* remove (tools.py), _execute_remove (tools_v2.py), prune_by_ids (utils.py) *)

\* item["items"] = prune(item.get("items", [])): every component that stays
\* gets an "items" key, [] on a flat page
with_items(items) ==
    [k \in 1..Len(items) |-> [items[k] EXCEPT !.items = EmptyItems]]

\* the nested prune() of remove / _execute_remove on a flat list: only the
\* entries whose own id matches are dropped
prune(items, component_id) ==
    with_items(SelectSeq(items, LAMBDA c : c.id # component_id))

\* tools.remove, between load_page and save_page
remove(items, component_id) ==
    [removed |-> \E i \in 1..Len(items) : items[i].id = component_id,
     items |-> renumber_components(prune(items, component_id))]

\* _collect_descendants: ids reached from the targets through parent_map
RECURSIVE collect_descendants(_, _)
collect_descendants(items, ids_to_remove) ==
    LET more == {items[i].id : i \in {j \in 1..Len(items) :
                    get_rel_parent_id(items[j]) \in ids_to_remove}}
    IN IF more \subseteq ids_to_remove THEN ids_to_remove
       ELSE collect_descendants(items, ids_to_remove \cup more)

prune_by_ids(items, target_ids) ==
    LET ids_to_remove == collect_descendants(items, target_ids)
        gone(c) == c.id \in ids_to_remove \/ get_rel_parent_id(c) \in ids_to_remove
    IN [removed |-> \E i \in 1..Len(items) : gone(items[i]),
        items |-> with_items(SelectSeq(items, LAMBDA c : ~gone(c)))]

\* utils.execute_remove_operation
execute_remove_operation(items, component_id) ==
    prune_by_ids(items, {component_id})

----------------------------------------------------------------------------
(* edit (tools.py), execute_edit_operation (utils.py), _execute_edit (v2)  *)
(* An update payload is a record of all the fields plus keys, the set of   *)
(* the keys the caller actually sent.                                      *)

IsNone(f, v) == IF f \in {"id", "kind", "parent_id"} THEN v = None ELSE v = <<>>

\* EditInput(**kwargs) as a model: a field the caller did not send holds its
\* default, None for all the fields here but wrap (default False)
EditInput(upd) ==
    [upd EXCEPT !.keys = upd.keys \cup {"wrap"},
                !.wrap = IF "wrap" \in upd.keys THEN upd.wrap ELSE Some(FALSE)]

\* model_dump(exclude_none=True, exclude=EDIT_EXCLUDE_FIELDS): every field
\* of the model that is not None, sent or defaulted
dump_updates(upd) ==
    LET payload == EditInput(upd)
    IN [payload EXCEPT !.keys = {f \in payload.keys \ {"kind"} : ~IsNone(f, payload[f])}]

\* target.update(updates): a shallow merge, key by key
update(target, upd) ==
    LET pick(f) == IF f \in upd.keys THEN upd[f] ELSE target[f]
    IN [id |-> pick("id"), kind |-> pick("kind"), orderIndex |-> pick("orderIndex"),
        wrap |-> pick("wrap"),
        left |-> pick("left"), top |-> pick("top"),
        width |-> pick("width"), height |-> pick("height"),
        relIn |-> pick("relIn"), relTo |-> pick("relTo"), items |-> target.items]

\* EditInput(**kwargs): component_id required, nested models validated, and
\* _forbid_insert_fields rejects id and parent_id (before_id and after_id
\* are treated as parent_id is)
EditInputValid(component_id, upd) ==
    /\ component_id # None
    /\ ~("id" \in upd.keys /\ upd.id # None)
    /\ ~("parent_id" \in upd.keys /\ upd.parent_id # None)
    /\ "relIn" \in upd.keys => ValidRel(upd.relIn)
    /\ "relTo" \in upd.keys => ValidRel(upd.relTo)

\* The body shared by edit and execute_edit_operation after EditInput; the
\* outcome is [status, items]: "none" (no such component), "raised" or "ok".
\* The merge precedes the CreateInput validation, so a "raised" outcome can
\* carry the merged component.
edit_steps(items, component_id, upd) ==
    LET idx == find_component_by_id(items, component_id)
        kind_value == items[idx].kind
        merged == update(items[idx], dump_updates(upd))
        after == [items EXCEPT ![idx] = merged]
    IN IF ~EditInputValid(component_id, upd) THEN [status |-> "raised", items |-> items]
       ELSE IF idx = 0 THEN [status |-> "none", items |-> items]
       ELSE IF "kind" \in upd.keys /\ upd.kind # None /\ upd.kind # kind_value
            THEN [status |-> "raised", items |-> items]
       ELSE IF ~CreateInputValid(kind_value, merged.relIn, merged.relTo)
            THEN [status |-> "raised", items |-> after]
       ELSE [status |-> "ok", items |-> after]

\* tools.edit: the page is saved only on the "ok" path
edit(items, component_id, upd) ==
    LET r == edit_steps(items, component_id, upd)
    IN IF r.status = "ok" THEN r ELSE [r EXCEPT !.items = items]

\* utils.execute_edit_operation: a missing component raises
execute_edit_operation(items, component_id, upd) ==
    LET r == edit_steps(items, component_id, upd)
    IN IF r.status = "none" THEN [r EXCEPT !.status = "raised"] ELSE r

\* tools_v2._execute_edit on op.id and the raw op.payload
_execute_edit(items, id, upd) ==
    LET idx == find_component_by_id(items, id)
        kind_value == items[idx].kind
        merged == update(items[idx], upd)
        after == [items EXCEPT ![idx] = merged]
    IN IF id = None \/ upd.keys = {} THEN [status |-> "raised", items |-> items]
       ELSE IF idx = 0 THEN [status |-> "none", items |-> items]
       ELSE IF kind_value = None THEN [status |-> "raised", items |-> items]
       ELSE IF ~CreateInputValid(kind_value, merged.relIn, merged.relTo)
            THEN [status |-> "raised", items |-> after]
       ELSE [status |-> "ok", items |-> after]

----------------------------------------------------------------------------
(* reorder (tools.py), _execute_reorder (v2), execute_reorder_operation    *)
(* The lists of the code hold references: here they hold positions of the  *)
(* page's items, so that one object listed twice stays one object.         *)

matches_parent(item, parent_id) ==
    IF parent_id # None THEN get_rel_parent_id(item) = parent_id
    ELSE get_rel_parent_id(item) = None

Positions(items) == [i \in 1..Len(items) |-> i]

target_list(items, parent_id) ==
    SelectSeq(Positions(items), LAMBDA i : matches_parent(items[i], parent_id))

\* id_to_item: a later sibling with the same id replaces an earlier one
id_to_item(items, targets, id) ==
    LET hits == {k \in 1..Len(targets) : items[targets[k]].id = id}
    IN IF hits = {} THEN 0
       ELSE targets[CHOOSE k \in hits : \A j \in hits : j <= k]

\* [id_to_item[i] for i in order_ids if i in id_to_item]
RECURSIVE requested(_, _, _)
requested(items, targets, order_ids) ==
    IF order_ids = <<>> THEN <<>>
    ELSE LET p == id_to_item(items, targets, Head(order_ids))
         IN (IF p # 0 THEN <<p>> ELSE <<>>)
                \o requested(items, targets, Tail(order_ids))

\* for item in target_list: if item not in new_list: new_list.append(item)
\* (list membership compares the dicts by value)
RECURSIVE append_missing(_, _, _)
append_missing(items, new_list, rest) ==
    IF rest = <<>> THEN new_list
    ELSE LET p == Head(rest)
             present == \E k \in 1..Len(new_list) : items[new_list[k]] = items[p]
         IN append_missing(items,
                           IF present THEN new_list ELSE Append(new_list, p),
                           Tail(rest))

\* execute_reorder_operation: membership by id, in the ids requested
append_missing_ids(items, new_list, targets) ==
    LET reordered_ids == {items[new_list[k]].id : k \in 1..Len(new_list)}
    IN new_list \o SelectSeq(targets, LAMBDA p : items[p].id \notin reordered_ids)

\* for idx, item in enumerate(new_list): item["orderIndex"] = idx
enumerated(items, new_list) ==
    [p \in 1..Len(items) |->
        LET at == {k \in 1..Len(new_list) : new_list[k] = p}
        IN IF at = {} THEN items[p]
           ELSE [items[p] EXCEPT !.orderIndex =
                    Some((CHOOSE k \in at : \A j \in at : j <= k) - 1)]]

\* the places of the page that take the next entry of new_list
Slots(items, targets) ==
    {i \in 1..Len(items) : items[i].id \in {items[targets[k]].id : k \in 1..Len(targets)}}

\* The rebuilt page as references: the j-th slot takes new_list[j]
rebuilt_refs(items, targets, new_list) ==
    [i \in 1..Len(items) |->
        IF i \in Slots(items, targets)
        THEN new_list[Cardinality({s \in Slots(items, targets) : s <= i})]
        ELSE i]

\* The outcome of the three reorder bodies: status is "empty" (no sibling
\* matches: nothing is written), "raised" (next() on the exhausted iterator)
\* or "ok"; items is the in-memory page when the body ends, new_list the
\* components returned.  renumber tells whether renumber_components follows.
reorder_steps(items, parent_id, order_ids, by_value, renumber) ==
    LET targets == target_list(items, parent_id)
        first == requested(items, targets, order_ids)
        new_list == IF by_value THEN append_missing(items, first, targets)
                    ELSE append_missing_ids(items, first, targets)
        objs == enumerated(items, new_list)
        refs == rebuilt_refs(items, targets, new_list)
        placed == [i \in 1..Len(items) |-> objs[refs[i]]]
    IN IF targets = <<>>
       THEN [status |-> "empty", items |-> items, new_list |-> <<>>]
       ELSE IF Cardinality(Slots(items, targets)) > Len(new_list)
       THEN [status |-> "raised", items |-> objs, new_list |-> <<>>]
       ELSE [status |-> "ok",
             items |-> IF renumber THEN renumber_refs(placed, refs) ELSE placed,
             new_list |-> new_list]

\* tools.reorder: saved on the "ok" path only
reorder(items, parent_id, order_ids) ==
    LET r == reorder_steps(items, parent_id, order_ids, TRUE, TRUE)
    IN IF r.status = "ok" THEN r ELSE [r EXCEPT !.items = items]

_execute_reorder(items, parent_id, order_ids) ==
    IF order_ids = <<>> THEN [status |-> "raised", items |-> items, new_list |-> <<>>]
    ELSE reorder_steps(items, parent_id, order_ids, TRUE, TRUE)

execute_reorder_operation(items, parent_id, order_ids) ==
    reorder_steps(items, parent_id, order_ids, FALSE, FALSE)

----------------------------------------------------------------------------
(* _execute_create and _execute_remove of tools_v2.py *)

\* kind SECTION: relTo None, not a dict or without id becomes the header anchor
v2_section_rel_to(kw) ==
    IF kw.kind = "SECTION" /\ (kw.relTo = NoRel \/ kw.relTo[1].id = None)
    THEN RelTo(DEFAULT_HEADER_ID, Some(0))
    ELSE kw.relTo

\* payload is <<>> (no payload) or <<kw>>; the component is built from the
\* validated payload as it stands: parent_id does not reach relIn
_execute_create(items, payload) ==
    IF payload = <<>> THEN Failed(items)
    ELSE LET kw == payload[1]
             relTo1 == v2_section_rel_to(kw)
             new_id == IF kw.id # None THEN kw.id ELSE generate_id(items)
             comp == build_component(kw, kw.relIn, relTo1, new_id)
         IN IF ~CreateInputValid(kw.kind, kw.relIn, relTo1) THEN Failed(items)
            ELSE [ok |-> TRUE,
                  items |-> renumber_components(
                                insert_component(comp, items, kw.before_id, kw.after_id)),
                  at |-> insert_index(items, kw.before_id, kw.after_id)]

_execute_remove(items, id) ==
    IF id = None THEN [status |-> "raised", removed |-> FALSE, items |-> items]
    ELSE [status |-> "ok",
          removed |-> remove(items, id).removed,
          items |-> remove(items, id).items]

----------------------------------------------------------------------------
(* Inputs *)

Kinds == {"SECTION", "TEXT"}

\* the ids a caller can name: those of the page, and one that names nothing
RefIds(items) == Ids(items) \cup {"hero"}

\* the absolute box the callers of this model send, per kind
BoxOf(kind) ==
    IF kind = "SECTION"
    THEN [left |-> Some(0), top |-> Some(1), width |-> Some(6), height |-> Some(3)]
    ELSE [left |-> Some(1), top |-> Some(2), width |-> Some(2), height |-> Some(1)]

Kwargs(kind, id, parent_id, box, relIn, relTo, nested) ==
    [kind |-> kind, id |-> id, parent_id |-> parent_id,
     before_id |-> None, after_id |-> None,
     wrap |-> Some(FALSE),
     left |-> box.left, top |-> box.top, width |-> box.width, height |-> box.height,
     relIn |-> relIn, relTo |-> relTo, nested |-> nested]

NoOffsets(id) == RelIn(id, NoInt, NoInt, NoInt, NoInt)

\* payloads of the create tool: no parent, or parent_id naming one
CreateInputs(items) ==
    {Kwargs(k, id, None, BoxOf(k), NoRel, NoRel, "dict") : k \in Kinds, id \in {None, "a"}}
    \cup {Kwargs(k, None, p, BoxOf(k), NoRel, NoRel, "dict") :
            k \in Kinds, p \in RefIds(items)}

NoUpdate ==
    [keys |-> {}, id |-> None, kind |-> None, parent_id |-> None,
     orderIndex |-> NoInt, wrap |-> <<>>,
     left |-> NoInt, top |-> NoInt, width |-> NoInt, height |-> NoInt,
     relIn |-> NoRel, relTo |-> NoRel]

\* edit payloads: a new height, a relIn without its id
NewHeight == [NoUpdate EXCEPT !.keys = {"height"}, !.height = Some(5)]

BadRelIn == [NoUpdate EXCEPT !.keys = {"relIn"}, !.relIn = NoOffsets(None)]

EditInputs == {NewHeight, BadRelIn}

\* the ids the callers of this model edit: the one they chose, and an unknown
EditIds == {"a", "hero"}

OrderInputs(items) ==
    {<<x>> : x \in Ids(items)} \cup {<<x, y>> : x \in Ids(items), y \in Ids(items)}

----------------------------------------------------------------------------
(* The tools of tools.py: one call each, load_page .. save_page *)

\* the last step: which tool, which operation, the id it names (the new id of
\* a create, the target of an edit or remove, the parent of a reorder), how
\* it ended, and for a create the place of the new component
Call(tool, op, id, status, at) ==
    [tool |-> tool, op |-> op, id |-> id, status |-> status, at |-> at]

Init ==
    /\ stored = <<>>
    /\ pc = "idle"
    /\ page = <<>>
    /\ ops = <<>>
    /\ results = <<>>
    /\ lastSec = None
    /\ pre = <<>>
    /\ call = Call("none", "none", None, "none", 0)
    /\ io = [exists |-> FALSE, loads |-> 0, made |-> FALSE, writes |-> <<>>]

\* the page file once some call has loaded it, no batch running
IdleIo == [exists |-> TRUE, loads |-> 0, made |-> FALSE, writes |-> <<>>]

\* load_page at the start of a batch: one read; a missing page file is
\* written by _create_page before anything else happens (made).  writes
\* lists, per write of the page file, how many operations had run by then.
load_page ==
    [exists |-> TRUE, loads |-> 1, made |-> ~io.exists,
     writes |-> IF io.exists THEN <<>> ELSE <<0>>]

\* save_page: one more write of the page file
save_page == [io EXCEPT !.writes = Append(@, Len(ops))]

\* a single-tool call leaves no batch behind
NoBatch ==
    /\ io' = IdleIo
    /\ pc' = "idle"
    /\ page' = <<>>
    /\ ops' = <<>>
    /\ results' = <<>>
    /\ lastSec' = None
    /\ pre' = <<>>

CreateCall(kw) ==
    /\ pc = "idle"
    /\ LET r == create(stored, kw)
       IN /\ stored' = r.items
          /\ call' = Call("tools", "create", IF r.ok THEN r.items[r.at].id ELSE None,
                          IF r.ok THEN "ok" ELSE "raised", r.at)
    /\ NoBatch

Create ==
    /\ Len(stored) < MaxItems
    /\ \E kw \in CreateInputs(stored) : CreateCall(kw)

RemoveCall(id) ==
    /\ pc = "idle"
    /\ stored' = remove(stored, id).items
    /\ call' = Call("tools", "remove", id,
                    IF remove(stored, id).removed THEN "ok" ELSE "none", 0)
    /\ NoBatch

Remove == \E id \in RefIds(stored) : RemoveCall(id)

EditCall(id, upd) ==
    /\ pc = "idle"
    /\ stored' = edit(stored, id, upd).items
    /\ call' = Call("tools", "edit", id, edit(stored, id, upd).status, 0)
    /\ NoBatch

Edit == \E id \in EditIds, upd \in EditInputs : EditCall(id, upd)

ReorderCall(parent_id, order_ids) ==
    /\ pc = "idle"
    /\ stored' = reorder(stored, parent_id, order_ids).items
    /\ call' = Call("tools", "reorder", parent_id,
                    reorder(stored, parent_id, order_ids).status, 0)
    /\ NoBatch

Reorder ==
    \E parent_id \in Ids(stored) \cup {None}, order_ids \in OrderInputs(stored) :
        ReorderCall(parent_id, order_ids)

----------------------------------------------------------------------------
(* mutate_components (tools_v2.py): load_page, one step per operation of   *)
(* the batch, save_page.  An operation is op, id, alias, payload,          *)
(* parent_id and order_ids; ops keeps what identifies it: op, id (the      *)
(* parent_id of a reorder), alias, ref (the relIn id of its payload) and   *)
(* keys (the keys of an edit payload).                                     *)

Operation(op, id, alias, ref, keys) ==
    [op |-> op, id |-> id, alias |-> alias, ref |-> ref, keys |-> keys]

\* the relIn id an operation's payload carries
PayloadRef(payload) ==
    IF payload # <<>> /\ payload[1].relIn # NoRel THEN payload[1].relIn[1].id ELSE None

\* a result entry: a formatted component (no "op" key), the remove and
\* reorder dicts, or an {"op", "error"} dict
Result(shape, op, id, success) ==
    [shape |-> shape, op |-> op, id |-> id, success |-> success]

Raised(op) == Result("error", op, None, FALSE)

\* payloads of a batch create: no parent, or a relIn dict naming one
PayloadInputs(items) ==
    {Kwargs(k, id, None, BoxOf(k), NoRel, NoRel, "dict") : k \in Kinds, id \in {None, "a"}}
    \cup {Kwargs(k, None, None, BoxOf(k), NoOffsets(p), NoRel, "dict") :
            k \in Kinds, p \in RefIds(items)}
    \cup {Kwargs(None, None, None, BoxOf(None), NoRel, NoRel, "dict")}

MutateBegin ==
    /\ pc = "idle"
    /\ pc' = "v2"
    /\ page' = stored
    /\ ops' = <<>>
    /\ results' = <<>>
    /\ lastSec' = None
    /\ pre' = stored
    /\ call' = Call("v2", "begin", None, "ok", 0)
    /\ io' = load_page
    /\ UNCHANGED stored

\* the step with an except branch that drops the error
StepSkipsRaised(operation, result, items, status, id, at) ==
    /\ ops' = Append(ops, operation)
    /\ results' = IF status = "raised" THEN results ELSE Append(results, result)
    /\ page' = items
    /\ call' = Call("v2", operation.op, id, status, at)
    /\ UNCHANGED <<stored, pc, pre, io>>

\* the step of a batch that saves the page after every operation
StepSaving(operation, result, items, status, id, at) ==
    /\ ops' = Append(ops, operation)
    /\ results' = Append(results, result)
    /\ page' = items
    /\ call' = Call("v2", operation.op, id, status, at)
    /\ stored' = items
    /\ io' = save_page
    /\ UNCHANGED <<pc, pre>>

\* results.append(result), or the except branch's results.append
Step(operation, result, items, status, id, at) ==
    /\ ops' = Append(ops, operation)
    /\ results' = Append(results, result)
    /\ page' = items
    /\ call' = Call("v2", operation.op, id, status, at)
    /\ UNCHANGED <<stored, pc, pre, io>>

MutateCreate(alias, payload) ==
    /\ pc = "v2"
    /\ Len(ops) < MaxOps
    /\ LET r == _execute_create(page, payload)
           new == r.items[r.at]
       IN IF r.ok
          THEN /\ Step(Operation("create", None, alias, PayloadRef(payload), {}),
                       Result("component", None, new.id, FALSE),
                       r.items, "ok", new.id, r.at)
               /\ lastSec' = IF new.kind = "SECTION" THEN new.id ELSE lastSec
          ELSE /\ Step(Operation("create", None, alias, PayloadRef(payload), {}),
                       Raised("create"),
                       page, "raised", None, 0)
               /\ lastSec' = lastSec

MutateEdit(id, payload) ==
    /\ pc = "v2"
    /\ Len(ops) < MaxOps
    /\ LET r == _execute_edit(page, id, payload)
       IN Step(Operation("edit", id, None, None, payload.keys),
               CASE r.status = "ok" -> Result("component", None, id, FALSE)
                 [] r.status = "none" -> Result("error", "edit", id, FALSE)
                 [] OTHER -> Raised("edit"),
               r.items, r.status, id, 0)
    /\ lastSec' = lastSec

MutateRemove(id) ==
    /\ pc = "v2"
    /\ Len(ops) < MaxOps
    /\ LET r == _execute_remove(page, id)
       IN Step(Operation("remove", id, None, None, {}),
               IF r.status = "ok" THEN Result("remove", "remove", id, r.removed)
               ELSE Raised("remove"),
               r.items, r.status, id, 0)
    /\ lastSec' = lastSec

MutateReorder(parent_id, order_ids) ==
    /\ pc = "v2"
    /\ Len(ops) < MaxOps
    /\ LET r == _execute_reorder(page, parent_id, order_ids)
       IN Step(Operation("reorder", parent_id, None, None, {}),
               IF r.status = "raised" THEN Raised("reorder")
               ELSE Result("reorder", "reorder", parent_id, FALSE),
               r.items, r.status, parent_id, 0)
    /\ lastSec' = lastSec

\* save_page(page_path, page); return results
MutateEnd ==
    /\ pc = "v2"
    /\ stored' = page
    /\ pc' = "idle"
    /\ page' = <<>>
    /\ lastSec' = None
    /\ call' = Call("v2", "end", None, "ok", 0)
    /\ io' = save_page
    /\ UNCHANGED <<ops, results, pre>>

BatchCreate ==
    /\ Len(page) < MaxItems
    /\ \/ \E kw \in PayloadInputs(page) : MutateCreate(None, <<kw>>)
       \/ \E k \in Kinds :
            MutateCreate("hero", <<Kwargs(k, None, None, BoxOf(k), NoRel, NoRel, "dict")>>)
       \/ MutateCreate(None, <<>>)

BatchEdit ==
    \/ \E upd \in EditInputs \cup {NoUpdate} : MutateEdit("a", upd)
    \/ \E id \in {"hero", None} : MutateEdit(id, NewHeight)

BatchRemove == \E id \in RefIds(page) \cup {None} : MutateRemove(id)

BatchReorder ==
    \E order_ids \in {<<x>> : x \in Ids(page)} \cup {<<>>} :
        MutateReorder(None, order_ids)

\* the single-call tools
Next ==
    \/ Create
    \/ Remove
    \/ Edit
    \/ Reorder

Spec == Init /\ [][Next]_vars

\* calls of the batch tool
NextBatch ==
    \/ MutateBegin
    \/ BatchCreate
    \/ BatchEdit
    \/ BatchRemove
    \/ BatchReorder
    \/ MutateEnd

SpecBatch == Init /\ [][NextBatch]_vars

----------------------------------------------------------------------------
(* The in-memory batch operations of utils.py: a caller loads the page,    *)
(* applies execute_*_operation to it and lets it go; none of them saves.   *)

LoadPage ==
    /\ pc = "idle"
    /\ pc' = "utils"
    /\ page' = stored
    /\ ops' = <<>>
    /\ results' = <<>>
    /\ lastSec' = None
    /\ pre' = stored
    /\ call' = Call("utils", "load", None, "ok", 0)
    /\ io' = load_page
    /\ UNCHANGED stored

ExecuteCreate(kw) ==
    /\ pc = "utils"
    /\ Len(ops) < MaxOps
    /\ LET r == execute_create_operation(page, kw)
       IN /\ page' = r.items
          /\ ops' = Append(ops, Operation("create", None, None, PayloadRef(<<kw>>), {}))
          /\ results' = Append(results,
                               IF r.ok THEN Result("component", None, r.items[r.at].id, FALSE)
                               ELSE Raised("create"))
          /\ call' = Call("utils", "create", IF r.ok THEN r.items[r.at].id ELSE None,
                          IF r.ok THEN "ok" ELSE "raised", r.at)
    /\ UNCHANGED <<stored, pc, lastSec, pre, io>>

Release ==
    /\ pc = "utils"
    /\ pc' = "idle"
    /\ page' = <<>>
    /\ ops' = <<>>
    /\ results' = <<>>
    /\ pre' = <<>>
    /\ call' = Call("utils", "release", None, "ok", 0)
    /\ io' = IdleIo
    /\ UNCHANGED <<stored, lastSec>>

----------------------------------------------------------------------------
(* Creates with a range of boxes: the three create paths on sections laid  *)
(* out one below the other, and children placed inside a parent.  No       *)
(* payload carries relTo or relIn offsets: the code computes them.         *)

MaxGeomItems == 3

SectionBoxes ==
    {[left |-> Some(1), top |-> t, width |-> Some(6), height |-> h] :
        t \in {NoInt, Some(0), Some(4)}, h \in {NoInt, Some(3)}}

ChildBoxes ==
    {[left |-> l, top |-> Some(5), width |-> w, height |-> Some(1)] :
        l \in {NoInt, Some(0), Some(2)}, w \in {Some(2), Some(7)}}

GeomSections(items) ==
    {Kwargs("SECTION", None, None, b, NoRel, NoRel, "dict") : b \in SectionBoxes}
    \cup {Kwargs("SECTION", None, p, [left |-> Some(1), top |-> Some(4),
                                       width |-> Some(6), height |-> Some(3)],
                 NoRel, NoRel, "dict") : p \in Ids(items)}

GeomChildren(items) ==
    {Kwargs("TEXT", None, p, b, NoRel, NoRel, "dict") : b \in ChildBoxes, p \in Ids(items)}

GeomCreate ==
    /\ Len(stored) < MaxGeomItems
    /\ \E kw \in GeomSections(stored) \cup GeomChildren(stored) : CreateCall(kw)

GeomExecuteCreate ==
    /\ Len(page) < MaxGeomItems
    /\ \E kw \in GeomSections(page) \cup GeomChildren(page) : ExecuteCreate(kw)

GeomBatchCreate ==
    /\ Len(page) < MaxGeomItems
    /\ \E b \in SectionBoxes :
        MutateCreate(None, <<Kwargs("SECTION", None, None, b, NoRel, NoRel, "dict")>>)

NextGeom ==
    \/ GeomCreate
    \/ LoadPage
    \/ GeomExecuteCreate
    \/ Release
    \/ MutateBegin
    \/ GeomBatchCreate
    \/ MutateEnd

SpecGeom == Init /\ [][NextGeom]_vars

----------------------------------------------------------------------------
(* Edits with a range of payloads, on the three edit paths: the edit tool, *)
(* execute_edit_operation and the edit operation of mutate_components.     *)

MaxEditItems == 2
MaxEditOps == 1     \* edit operations per batch

Wrapped(kw) == [kw EXCEPT !.wrap = Some(TRUE)]

\* edit payloads of one field each
NewOrderIndex == [NoUpdate EXCEPT !.keys = {"orderIndex"}, !.orderIndex = Some(5)]

NewRelIn(p) == [NoUpdate EXCEPT !.keys = {"relIn"}, !.relIn = NoOffsets(p)]

NewId == [NoUpdate EXCEPT !.keys = {"id"}, !.id = "b"]

NewKind(k) == [NoUpdate EXCEPT !.keys = {"kind", "height"}, !.kind = k, !.height = Some(5)]

NewParent == [NoUpdate EXCEPT !.keys = {"parent_id"}, !.parent_id = "a"]

\* what EditInput takes as keyword arguments
RichEditInputs(items) ==
    {NewHeight, NewOrderIndex, NewId, NewParent, BadRelIn}
    \cup {NewRelIn(p) : p \in RefIds(items)}
    \cup {NewKind(k) : k \in Kinds}

\* payloads of an edit operation of a batch: any dict is taken
RawEditInputs == {NewHeight, NewId} \cup {NewKind(k) : k \in Kinds}

\* creates of the component the edits name, with and without wrap, and of
\* components under a parent
EditCreateInputs(items) ==
    {Kwargs(k, "a", None, BoxOf(k), NoRel, NoRel, "dict") : k \in Kinds}
    \cup {Wrapped(Kwargs(k, "a", None, BoxOf(k), NoRel, NoRel, "dict")) : k \in Kinds}
    \cup {Kwargs(k, None, p, BoxOf(k), NoRel, NoRel, "dict") : k \in Kinds, p \in Ids(items)}

EditCreate ==
    /\ Len(stored) < MaxEditItems
    /\ \E kw \in EditCreateInputs(stored) : CreateCall(kw)

RichEdit ==
    \E id \in EditIds, upd \in RichEditInputs(stored) : EditCall(id, upd)

ExecuteEdit(id, upd) ==
    /\ pc = "utils"
    /\ Len(ops) < MaxOps
    /\ LET r == execute_edit_operation(page, id, upd)
       IN /\ page' = r.items
          /\ ops' = Append(ops, Operation("edit", id, None, None, upd.keys))
          /\ results' = Append(results,
                               IF r.status = "ok" THEN Result("component", None, id, FALSE)
                               ELSE Raised("edit"))
          /\ call' = Call("utils", "edit", id, r.status, 0)
    /\ UNCHANGED <<stored, pc, lastSec, pre, io>>

RichExecuteEdit ==
    /\ Len(ops) < MaxEditOps
    /\ \E id \in EditIds, upd \in {NewHeight, NewOrderIndex, NewId} : ExecuteEdit(id, upd)

RichBatchEdit ==
    /\ Len(ops) < MaxEditOps
    /\ \E id \in EditIds, upd \in RawEditInputs : MutateEdit(id, upd)

NextEdit ==
    \/ EditCreate
    \/ RichEdit
    \/ LoadPage
    \/ RichExecuteEdit
    \/ Release
    \/ MutateBegin
    \/ RichBatchEdit
    \/ MutateEnd

SpecEdit == Init /\ [][NextEdit]_vars

----------------------------------------------------------------------------
(* The defaults of build_component (builder.py).  A dict is [keys, val]:   *)
(* the keys it holds and, per key, None (<<>>) or a value (<<v>>).  The    *)
(* fields are those with a kind-specific default that is not None, one or  *)
(* two per kind and per way build_component copies them.                   *)

BuildKinds == {"SECTION", "CONTAINER", "TEXT", "BUTTON"}

BuildFields == {"stretch", "pin", "selectedTheme", "wrap", "text", "fontSize", "bold"}

EmptyDict == [keys |-> {}, val |-> [f \in BuildFields |-> <<>>]]

SetKey(d, f, v) == [keys |-> d.keys \cup {f}, val |-> [d.val EXCEPT ![f] = v]]

get_component_defaults(kind) ==
    CASE kind = "SECTION" ->
            SetKey(SetKey(SetKey(EmptyDict, "stretch", <<TRUE>>), "pin", <<0>>),
                   "selectedTheme", <<"White">>)
      [] kind = "CONTAINER" -> SetKey(EmptyDict, "wrap", <<FALSE>>)
      [] kind = "TEXT" -> SetKey(SetKey(EmptyDict, "fontSize", <<16>>), "text", <<"">>)
      [] kind = "BUTTON" -> SetKey(SetKey(EmptyDict, "fontSize", <<16>>), "bold", <<TRUE>>)
      [] OTHER -> EmptyDict

\* for key, value in fields.items(): if value is not None: component[key] = value
add_fields(component, fields) ==
    LET given == {f \in fields.keys : fields.val[f] # <<>>}
    IN [keys |-> component.keys \cup given,
        val |-> [f \in BuildFields |->
                    IF f \in given THEN fields.val[f] ELSE component.val[f]]]

\* payload.<field> of the validated CreateInput: the value sent, else the
\* schema's default (False for wrap, None for the others)
attribute(payload, f) ==
    IF f \in payload.keys THEN payload.val[f]
    ELSE IF f = "wrap" THEN <<FALSE>> ELSE <<>>

\* WSBComponentBuilder.reset: "wrap": False
reset == SetKey(EmptyDict, "wrap", <<FALSE>>)

\* self._component["wrap"] = wrap
set_core_fields(component, payload) ==
    SetKey(component, "wrap", attribute(payload, "wrap"))

\* if text is not None: self._component["text"] = text
add_content(component, payload) ==
    IF attribute(payload, "text") # <<>>
    THEN SetKey(component, "text", attribute(payload, "text"))
    ELSE component

\* payload.model_dump(exclude={..., "wrap", ..., "text", ...}, exclude_unset=True)
remaining_fields(payload) ==
    [keys |-> payload.keys \ {"wrap", "text"},
     val |-> [f \in BuildFields |->
                IF f \in payload.keys \ {"wrap", "text"} THEN payload.val[f] ELSE <<>>]]

\* build_component, for the fields above
build_component_fields(kind, payload) ==
    add_fields(
        add_content(
            set_core_fields(add_fields(reset, get_component_defaults(kind)), payload),
            payload),
        remaining_fields(payload))

\* a value the schema accepts for the field that is not its default
OtherValue(f) ==
    CASE f = "stretch" -> <<FALSE>>
      [] f = "pin" -> <<2>>
      [] f = "selectedTheme" -> <<"Dark">>
      [] f = "wrap" -> <<TRUE>>
      [] f = "text" -> <<"hi">>
      [] f = "fontSize" -> <<12>>
      [] f = "bold" -> <<FALSE>>

\* create payloads: every field is left out, sent as null or sent with a value
BuildPayloads ==
    UNION {{[keys |-> K,
             val |-> [f \in BuildFields |-> IF f \in V THEN OtherValue(f) ELSE <<>>]] :
                V \in SUBSET K} : K \in SUBSET BuildFields}

\* the call of a function of builder.py: the function and its argument
Argument(fn, arg) == <<[fn |-> fn, arg |-> arg]>>

\* build_component(payload, component_id): ops holds the argument, page
\* takes the component built
Build ==
    /\ call.op = "none"
    /\ ops[1].fn = "build"
    /\ page' = <<build_component_fields(ops[1].arg.kind, ops[1].arg.payload)>>
    /\ call' = Call("builder", "build", None, "ok", 0)
    /\ UNCHANGED <<stored, pc, ops, results, lastSec, pre, io>>

----------------------------------------------------------------------------
(* normalize_style_fields (builder.py).  A string key is the sequence of   *)
(* its characters.  A JSON value is [t, v]: t is "str", "dict", "list" or  *)
(* "none" (null, or no such key); v is the text, the dict's entries        *)
(* <<key, value>> in insertion order, or the list's entries.               *)

MaxKeyLen == 4      \* characters of a style key
MaxShortLen == 2    \* characters of a key of a two-key or nested mapping

Chars == {"a", "B", "-", "_"}

upper(c) == CASE c = "a" -> "A" [] c = "b" -> "B" [] OTHER -> c

lower(c) == CASE c = "A" -> "a" [] c = "B" -> "b" [] OTHER -> c

\* key.replace("_", "-")
replace(key) == [i \in 1..Len(key) |-> IF key[i] = "_" THEN "-" ELSE key[i]]

\* sanitized.split("-")
RECURSIVE split(_)
split(str) ==
    IF \A i \in 1..Len(str) : str[i] # "-" THEN <<str>>
    ELSE LET i == CHOOSE m \in 1..Len(str) :
                    str[m] = "-" /\ \A n \in 1..(m - 1) : str[n] # "-"
         IN <<SubSeq(str, 1, i - 1)>> \o split(SubSeq(str, i + 1, Len(str)))

\* part.capitalize(): the first character upper case, the others lower case
capitalize(part) ==
    [i \in 1..Len(part) |-> IF i = 1 THEN upper(part[i]) ELSE lower(part[i])]

\* "".join(part.capitalize() for part in parts if part)
RECURSIVE join_capitalized(_)
join_capitalized(parts) ==
    IF parts = <<>> THEN <<>>
    ELSE capitalize(Head(parts)) \o join_capitalized(Tail(parts))

\* the same with "-".join: the separators between the parts are kept
RECURSIVE join_with_dash(_)
join_with_dash(parts) ==
    IF parts = <<>> THEN <<>>
    ELSE IF Len(parts) = 1 THEN capitalize(Head(parts))
    ELSE capitalize(Head(parts)) \o <<"-">> \o join_with_dash(Tail(parts))

\* the camelCase conversion that keeps the separators after the first
camelize_css_key_dashed(key) ==
    LET parts == split(replace(key))
    IN IF Len(parts) = 1 THEN key
       ELSE parts[1] \o join_with_dash(SelectSeq(Tail(parts), LAMBDA q : q # <<>>))

_camelize_css_key(key) ==
    LET parts == split(replace(key))
    IN IF Len(parts) = 1 THEN key
       ELSE parts[1] \o join_capitalized(SelectSeq(Tail(parts), LAMBDA q : q # <<>>))

Str(text) == [t |-> "str", v |-> text]
Dict(entries) == [t |-> "dict", v |-> entries]
List(entries) == [t |-> "list", v |-> entries]
Missing == [t |-> "none", v |-> <<>>]

\* d[key] = value on the entries of a dict: an existing key keeps its place
dict_set(entries, key, value) ==
    IF \E i \in 1..Len(entries) : entries[i][1] = key
    THEN [i \in 1..Len(entries) |->
            IF entries[i][1] = key THEN <<key, value>> ELSE entries[i]]
    ELSE Append(entries, <<key, value>>)

RECURSIVE _camelize_style_value(_)
RECURSIVE camelize_items(_, _)

\* {_camelize_css_key(k): _camelize_style_value(v) for k, v in value.items()}
camelize_items(entries, acc) ==
    IF entries = <<>> THEN acc
    ELSE camelize_items(Tail(entries),
                        dict_set(acc, _camelize_css_key(Head(entries)[1]),
                                 _camelize_style_value(Head(entries)[2])))

_camelize_style_value(value) ==
    CASE value.t = "dict" -> Dict(camelize_items(value.v, <<>>))
      [] value.t = "list" ->
            List([i \in 1..Len(value.v) |-> _camelize_style_value(value.v[i])])
      [] OTHER -> value

\* a component with two of STYLE_FIELDS, style and styles, and one field
\* that is none of them, data
normalize_style_fields(component) ==
    [style |-> IF component.style.t = "dict"
               THEN _camelize_style_value(component.style)
               ELSE component.style,
     styles |-> CASE component.styles.t = "list" ->
                        List([i \in 1..Len(component.styles.v) |->
                                IF component.styles.v[i].t = "dict"
                                THEN _camelize_style_value(component.styles.v[i])
                                ELSE component.styles.v[i]])
                  [] component.styles.t = "dict" -> _camelize_style_value(component.styles)
                  [] OTHER -> component.styles,
     data |-> component.data]

RECURSIVE KeysOfLen(_)
KeysOfLen(n) ==
    IF n = 0 THEN {<<>>}
    ELSE {Append(k, c) : k \in KeysOfLen(n - 1), c \in Chars}

StyleKeys == UNION {KeysOfLen(n) : n \in 1..MaxKeyLen}

ShortKeys == UNION {KeysOfLen(n) : n \in 1..MaxShortLen}

\* style mappings: one key; two keys; a mapping under a key; a list of
\* mappings under a key
StyleDicts ==
    {Dict(<<<<k, Str("x")>>>>) : k \in StyleKeys}
    \cup {Dict(<<<<kq[1], Str("x")>>, <<kq[2], Str("y")>>>>) :
            kq \in {x \in ShortKeys \X ShortKeys : x[1] # x[2]}}
    \cup {Dict(<<<<k, Dict(<<<<q, Str("x")>>>>)>>>>) : k \in ShortKeys, q \in ShortKeys}
    \cup {Dict(<<<<k, List(<<Dict(<<<<q, Str("x")>>>>), Str("y")>>)>>>>) :
            k \in ShortKeys, q \in ShortKeys}

\* values of styles: a list of mappings, texts and lists, or one mapping
StylesValues ==
    {List(<<Dict(<<<<k, Str("x")>>>>), Str("y"), List(<<Dict(<<<<k, Str("x")>>>>)>>)>>) :
        k \in ShortKeys}
    \cup {Dict(<<<<k, Str("x")>>>>) : k \in ShortKeys}

StyledComponents ==
    {[style |-> s, styles |-> Missing, data |-> Dict(<<<<<<"a", "-", "a">>, Str("x")>>>>)] :
        s \in StyleDicts \cup {Str("x"), Missing}}
    \cup {[style |-> Missing, styles |-> l, data |-> Missing] : l \in StylesValues}

\* normalize_style_fields(component)
Normalize ==
    /\ call.op = "none"
    /\ ops[1].fn = "normalize"
    /\ page' = <<normalize_style_fields(ops[1].arg)>>
    /\ call' = Call("builder", "normalize", None, "ok", 0)
    /\ UNCHANGED <<stored, pc, ops, results, lastSec, pre, io>>

\* the functions of builder.py on their own: an argument, no page
InitBuilder ==
    /\ stored = <<>>
    /\ pc = "idle"
    /\ page = <<>>
    /\ ops \in {Argument("build", [kind |-> kind, payload |-> payload]) :
                    kind \in BuildKinds, payload \in BuildPayloads}
                \cup {Argument("normalize", c) : c \in StyledComponents}
    /\ results = <<>>
    /\ lastSec = None
    /\ pre = <<>>
    /\ call = Call("none", "none", None, "none", 0)
    /\ io = [exists |-> FALSE, loads |-> 0, made |-> FALSE, writes |-> <<>>]

NextBuilder ==
    \/ Build
    \/ Normalize

SpecBuilder == InitBuilder /\ [][NextBuilder]_vars

----------------------------------------------------------------------------
(* Creates that say where to insert (before_id / after_id) and sections    *)
(* that name the component they follow (relTo), on the three create paths. *)

MaxPlaceItems == 3

\* payloads with before_id or after_id, sections with an explicit relTo, and
\* a section whose caller-chosen id holds one of FAKE_ID_PATTERNS
PlaceInputs(items) ==
    {[Kwargs(k, None, None, BoxOf(k), NoRel, NoRel, "dict")
        EXCEPT !.before_id = ba[1], !.after_id = ba[2]] :
            k \in Kinds,
            ba \in {x \in (RefIds(items) \cup {None}) \X (RefIds(items) \cup {None}) :
                        x[1] = None \/ x[2] = None}}
    \cup {Kwargs("SECTION", None, None, BoxOf("SECTION"), NoRel, RelTo(x, Some(0)), "dict") :
            x \in RefIds(items)}
    \cup {Kwargs("SECTION", "temp-section", None, BoxOf("SECTION"), NoRel, NoRel, "dict")}

PlaceCreate ==
    /\ Len(stored) < MaxPlaceItems
    /\ \E kw \in PlaceInputs(stored) : CreateCall(kw)

PlaceExecuteCreate ==
    /\ Len(page) < MaxPlaceItems
    /\ \E kw \in PlaceInputs(page) : ExecuteCreate(kw)

PlaceBatchCreate ==
    /\ Len(page) < MaxPlaceItems
    /\ \E kw \in PlaceInputs(page) : MutateCreate(None, <<kw>>)

NextPlace ==
    \/ PlaceCreate
    \/ LoadPage
    \/ PlaceExecuteCreate
    \/ Release
    \/ MutateBegin
    \/ PlaceBatchCreate
    \/ MutateEnd

SpecPlace == Init /\ [][NextPlace]_vars

----------------------------------------------------------------------------
(* Automatic positioning (positioning.py) and the create operation of      *)
(* mutate_components that carries auto_position: parent_id, strategy,      *)
(* sibling_id and gap_px (default 0).                                      *)

MaxAutoItems == 3

AutoPosition(parent_id, strategy, sibling_id, gap_px) ==
    [parent_id |-> parent_id, strategy |-> strategy,
     sibling_id |-> sibling_id, gap_px |-> gap_px]

\* d.get(key, 0) of a component built by build_component: the key is
\* missing when the payload had no value for it
get(value, default) == IF value = NoInt THEN default ELSE Val(value)

\* the components whose relIn.id is the parent's id, in document order
_get_children(parent, items) ==
    SelectSeq(items, LAMBDA c : get_rel_parent_id(c) = parent.id)

Positioned(relIn, relTo) == [ok |-> TRUE, relIn |-> relIn, relTo |-> relTo]

NotPositioned == [ok |-> FALSE, relIn |-> NoRel, relTo |-> NoRel]

\* top = gap_px inside the parent, no relTo
_position_above_first_child(parent, component_width, component_height, gap_px) ==
    Positioned(RelIn(parent.id, Some(0), Some(gap_px),
                     Some(-(get(parent.width, 0) - component_width)),
                     Some(-(get(parent.height, 0) - gap_px - component_height))),
               NoRel)

\* max(children, key=top + height) is the first child with the greatest key
_position_below_last_child(parent, items, component_width, component_height, gap_px) ==
    LET children == _get_children(parent, items)
        bottom(c) == get(c.top, 0) + get(c.height, 0)
        last_child ==
            children[CHOOSE k \in 1..Len(children) :
                        /\ \A j \in 1..Len(children) : bottom(children[j]) <= bottom(children[k])
                        /\ \A j \in 1..(k - 1) : bottom(children[j]) < bottom(children[k])]
        new_top == bottom(last_child) + gap_px
        rel_top == new_top - get(parent.top, 0)
    IN IF children = <<>>
       THEN _position_above_first_child(parent, component_width, component_height, gap_px)
       ELSE Positioned(RelIn(parent.id, Some(0), Some(rel_top),
                             Some(-(get(parent.width, 0) - component_width)),
                             Some(-(get(parent.height, 0) - rel_top - component_height))),
                       RelTo(last_child.id, Some(gap_px)))

\* Python's // rounds down, as \div does
_position_centered(parent, component_width, component_height) ==
    LET left_offset == (get(parent.width, 0) - component_width) \div 2
        top_offset == (get(parent.height, 0) - component_height) \div 2
    IN Positioned(RelIn(parent.id, Some(left_offset), Some(top_offset),
                        Some(-(get(parent.width, 0) - left_offset - component_width)),
                        Some(-(get(parent.height, 0) - top_offset - component_height))),
                  NoRel)

_position_fill_width(parent, component_height, gap_px) ==
    Positioned(RelIn(parent.id, Some(gap_px), Some(gap_px), Some(-gap_px),
                     Some(-(get(parent.height, 0) - gap_px - component_height))),
               NoRel)

\* stacking below any component found, whatever its parent
position_stack_below_any(parent, items, sibling_id, component_width, component_height, gap_px) ==
    LET sidx == find_component_by_id(items, sibling_id)
        sibling == items[sidx]
        rel_left == get(sibling.left, 0) - get(parent.left, 0)
        rel_top == get(sibling.top, 0) + get(sibling.height, 0) + gap_px
                        - get(parent.top, 0)
    IN IF sidx = 0 THEN NotPositioned
       ELSE Positioned(RelIn(parent.id, Some(rel_left), Some(rel_top),
                             Some(-(get(parent.width, 0) - component_width - rel_left)),
                             Some(-(get(parent.height, 0) - rel_top - component_height))),
                       RelTo(sibling_id, Some(gap_px)))

_position_stack_below(parent, items, sibling_id, component_width, component_height, gap_px) ==
    LET sidx == find_component_by_id(items, sibling_id)
        sibling == items[sidx]
        rel_left == get(sibling.left, 0) - get(parent.left, 0)
        new_top == get(sibling.top, 0) + get(sibling.height, 0) + gap_px
        rel_top == new_top - get(parent.top, 0)
    IN IF sidx = 0 THEN NotPositioned
       ELSE IF get_rel_parent_id(sibling) # parent.id THEN NotPositioned
       ELSE Positioned(RelIn(parent.id, Some(rel_left), Some(rel_top),
                             Some(-(get(parent.width, 0) - component_width - rel_left)),
                             Some(-(get(parent.height, 0) - rel_top - component_height))),
                       RelTo(sibling_id, Some(gap_px)))

\* NotPositioned stands for the ValueError raised
calculate_auto_position(auto_pos, items, component_width, component_height) ==
    LET pidx == find_component_by_id(items, auto_pos.parent_id)
        parent == items[pidx]
        strategy == auto_pos.strategy
        gap_px == auto_pos.gap_px
    IN IF pidx = 0 THEN NotPositioned
       ELSE CASE strategy = "below_last_child" ->
                    _position_below_last_child(parent, items, component_width,
                                               component_height, gap_px)
              [] strategy = "above_first_child" ->
                    _position_above_first_child(parent, component_width,
                                                component_height, gap_px)
              [] strategy = "centered" ->
                    _position_centered(parent, component_width, component_height)
              [] strategy = "fill_width" ->
                    _position_fill_width(parent, component_height, gap_px)
              [] strategy = "stack_below" ->
                    IF auto_pos.sibling_id = None THEN NotPositioned
                    ELSE _position_stack_below(parent, items, auto_pos.sibling_id,
                                               component_width, component_height, gap_px)
              [] OTHER -> NotPositioned

\* _execute_create, "if op.auto_position:": the payload that goes on to
\* CreateInput, <<>> when the width / height test or the strategy raised
auto_positioned(items, kw, auto_pos) ==
    IF get(kw.width, 0) = 0 \/ get(kw.height, 0) = 0 THEN <<>>
    ELSE LET pos == calculate_auto_position(auto_pos, items, Val(kw.width), Val(kw.height))
         IN IF ~pos.ok THEN <<>>
            ELSE <<[kw EXCEPT !.relIn = pos.relIn, !.relTo = pos.relTo,
                              !.parent_id = auto_pos.parent_id]>>

\* a blank parent_id filled with the last section of the page, whichever
\* call created it
fill_parent_from_page(auto_pos) ==
    IF auto_pos.parent_id = None /\ last_section_max(page) # 0
    THEN [auto_pos EXCEPT !.parent_id = page[last_section_max(page)].id]
    ELSE auto_pos

\* if not op.auto_position.parent_id: the id of the section this batch
\* created last, when there is one
fill_parent(auto_pos) ==
    IF auto_pos.parent_id = None
    THEN [auto_pos EXCEPT !.parent_id = lastSec]
    ELSE auto_pos

\* the last step when it is a create with auto_position: the payload and
\* the auto_position sent are kept with it
AutoCall(kw, auto_pos, id, status, at) ==
    [tool |-> "v2", op |-> "create", id |-> id, status |-> status, at |-> at,
     payload |-> kw, auto_position |-> auto_pos]

\* mutate_components, op.op == "create" with op.auto_position: a blank
\* parent_id is filled with last_created_section_id, or raises without one;
\* then results.append as in every step.  ref is the parent id used.
MutateAutoCreate(kw, auto_pos) ==
    /\ pc = "v2"
    /\ Len(ops) < MaxOps
    /\ LET filled == fill_parent(auto_pos)
           r == IF filled.parent_id = None THEN Failed(page)
                ELSE _execute_create(page, auto_positioned(page, kw, filled))
           new == r.items[r.at]
       IN /\ ops' = Append(ops, Operation("create", None, None, filled.parent_id, {}))
          /\ results' = Append(results,
                               IF r.ok THEN Result("component", None, new.id, FALSE)
                               ELSE Raised("create"))
          /\ page' = r.items
          /\ call' = IF r.ok THEN AutoCall(kw, auto_pos, new.id, "ok", r.at)
                     ELSE AutoCall(kw, auto_pos, None, "raised", 0)
          /\ lastSec' = IF r.ok /\ new.kind = "SECTION" THEN new.id ELSE lastSec
    /\ UNCHANGED <<stored, pc, pre, io>>

\* the strategies a caller names: the five of the tool description, and one
\* that is none of them
Strategies ==
    {"below_last_child", "above_first_child", "centered", "fill_width",
     "stack_below", "diagonal"}

\* a child's payload: width 2, a height or none, a top of its own or none
AutoPayload(top, height) ==
    Kwargs("TEXT", None, None,
           [left |-> NoInt, top |-> top, width |-> Some(2), height |-> height],
           NoRel, NoRel, "dict")

\* pairs of a payload and an auto_position: below_last_child under a parent
\* named, blank or unknown; stack_below with the siblings a caller can name;
\* the four other strategies under a parent of the page
AutoInputs(items) ==
    {<<kw, AutoPosition(p, "below_last_child", None, g)>> :
        kw \in {AutoPayload(NoInt, Some(1)), AutoPayload(Some(7), Some(3)),
                AutoPayload(NoInt, NoInt)},
        p \in RefIds(items) \cup {None},
        g \in {0, 2}}
    \cup {<<AutoPayload(NoInt, Some(1)), AutoPosition(p, "stack_below", x, 2)>> :
            p \in Ids(items), x \in RefIds(items) \cup {None}}
    \cup {<<AutoPayload(NoInt, Some(1)), AutoPosition(p, s, None, 2)>> :
            p \in Ids(items), s \in Strategies \ {"below_last_child", "stack_below"}}

\* a parent section at top 0 or 4
BatchSection ==
    /\ Len(page) < MaxAutoItems
    /\ \E t \in {0, 4} :
        MutateCreate(None, <<Kwargs("SECTION", None, None,
                                    [left |-> Some(0), top |-> Some(t),
                                     width |-> Some(6), height |-> Some(9)],
                                    NoRel, NoRel, "dict")>>)

BatchAutoCreate ==
    /\ Len(page) < MaxAutoItems
    /\ \E input \in AutoInputs(page) : MutateAutoCreate(input[1], input[2])

NextAuto ==
    \/ MutateBegin
    \/ BatchSection
    \/ BatchAutoCreate
    \/ MutateEnd

SpecAuto == Init /\ [][NextAuto]_vars

-----------------------------------------------------------------------------
(* get_components (tools_v2.py).  The documents queried hold components    *)
(* with text fields: a text is the sequence of its characters, a text      *)
(* field is <<>> (no such key) or <<text>>, and items holds the nested     *)
(* components.  A list-or-None filter is <<>> (None) or <<set>>, a         *)
(* text-or-None filter <<>> or <<text>>.                                   *)

MaxQueryItems == 2

TextFields == <<"text", "content", "title", "name">>

\* c.get(field, ""), for the text fields
text_of(c, field) == IF c[field] = <<>> THEN <<>> ELSE c[field][1]

\* str.lower()
lower_text(text) == [i \in 1..Len(text) |-> lower(text[i])]

\* needle at the start of hay
starts_with(needle, hay) ==
    /\ Len(needle) <= Len(hay)
    /\ SubSeq(hay, 1, Len(needle)) = needle

\* needle in hay
contains(needle, hay) ==
    \E i \in 0..(Len(hay) - Len(needle)) :
        SubSeq(hay, i + 1, i + Len(needle)) = needle

\* walk: every component followed by the components nested in its items
RECURSIVE walk(_)
walk(items) ==
    IF items = <<>> THEN <<>>
    ELSE <<items[1]>>
         \o (IF items[1].items = NoItems THEN <<>> ELSE walk(items[1].items[1]))
         \o walk(Tail(items))

\* a or b or c or d over the text fields: the first that is not empty, else
\* the last one's value (None when the key is missing)
first_truthy(c, fields) ==
    LET full == {k \in 1..Len(fields) : text_of(c, fields[k]) # <<>>}
    IN IF full = {} THEN c[fields[Len(fields)]]
       ELSE c[fields[CHOOSE k \in full : \A j \in full : k <= j]]

_format_component(component, response_format) ==
    IF response_format = "detailed" THEN component
    ELSE [id |-> component.id,
          kind |-> component.kind,
          orderIndex |-> component.orderIndex,
          parentId |-> get_rel_parent_id(component),
          title |-> first_truthy(component, <<"title", "name", "text", "content">>)]

\* the four filters, applied one after the other to the walked components.
\* Every component of the documents here holds kind, so "or type" is never
\* reached; the fields argument is left None.
get_components(items, ids, parent_id, kinds, text_contains, response_format) ==
    LET all_components == walk(items)
        by_ids == IF ids # <<>>
                  THEN SelectSeq(all_components, LAMBDA c : c.id \in ids[1])
                  ELSE all_components
        by_parent == IF parent_id # None
                     THEN SelectSeq(by_ids, LAMBDA c : get_rel_parent_id(c) = parent_id)
                     ELSE by_ids
        by_kinds == IF kinds # <<>>
                    THEN SelectSeq(by_parent, LAMBDA c : c.kind \in kinds[1])
                    ELSE by_parent
        by_text == IF text_contains # <<>>
                   THEN SelectSeq(by_kinds, LAMBDA c :
                            \E k \in 1..Len(TextFields) :
                                contains(lower_text(text_contains[1]),
                                         lower_text(text_of(c, TextFields[k]))))
                   ELSE by_kinds
    IN [k \in 1..Len(by_text) |-> _format_component(by_text[k], response_format)]

\* a component of a queried document
QueryComponent(id, kind, parent_id, text, title, items) ==
    [id |-> id, kind |-> kind, orderIndex |-> NoInt,
     relIn |-> IF parent_id = None THEN NoRel ELSE NoOffsets(parent_id),
     text |-> text, content |-> <<>>, title |-> title, name |-> <<>>,
     items |-> items]

\* the components that can stand at place k of a document: with a text, a
\* title or neither, top-level or inside the first component
QueryComponents(k) ==
    {QueryComponent(GenIdSeq[k], kind, parent_id, tt[1], tt[2], NoItems) :
        kind \in Kinds,
        parent_id \in {None, GenIdSeq[1]},
        tt \in {<<<<>>, <<>>>>,
                <<Some(<<"a", "B">>), <<>>>>,
                <<<<>>, Some(<<"B", "a">>)>>}}

\* documents of up to MaxQueryItems top-level components; the first may hold
\* one nested component
QueryDocs ==
    LET flat == UNION {{d \in [1..n -> UNION {QueryComponents(k) : k \in 1..n}] :
                            \A k \in 1..n : d[k] \in QueryComponents(k)} :
                       n \in 0..MaxQueryItems}
        nested == QueryComponent("n1", "TEXT", GenIdSeq[1], Some(<<"b">>), <<>>, NoItems)
    IN flat \cup {[d EXCEPT ![1].items = <<<<nested>>>>] : d \in {f \in flat : Len(f) >= 1}}

QueryCall(ids, parent_id, kinds, text_contains, response_format) ==
    [tool |-> "v2", op |-> "get", id |-> None, status |-> "ok", at |-> 0,
     ids |-> ids, parent_id |-> parent_id, kinds |-> kinds,
     text_contains |-> text_contains, response_format |-> response_format]

\* one call of get_components on the stored document: load_page, then the
\* list returned
GetComponents(ids, parent_id, kinds, text_contains, response_format) ==
    /\ pc = "idle"
    /\ call.op = "none"
    /\ results' = get_components(stored, ids, parent_id, kinds, text_contains,
                                 response_format)
    /\ call' = QueryCall(ids, parent_id, kinds, text_contains, response_format)
    /\ io' = load_page
    /\ pre' = stored
    /\ UNCHANGED <<stored, pc, page, ops, lastSec>>

Query ==
    \E ids \in {<<>>, <<{}>>, <<{"g2"}>>, <<{"g1", "n1"}>>},
       parent_id \in {None, "g1", "hero"},
       kinds \in {<<>>, <<{"TEXT"}>>, <<{"SECTION", "IMAGE"}>>},
       text_contains \in {<<>>, <<<<>>>>, <<<<"A", "b">>>>, <<<<"b">>>>},
       response_format \in {"concise", "detailed"} :
        GetComponents(ids, parent_id, kinds, text_contains, response_format)

InitQuery ==
    /\ stored \in QueryDocs
    /\ pc = "idle"
    /\ page = <<>>
    /\ ops = <<>>
    /\ results = <<>>
    /\ lastSec = None
    /\ pre = <<>>
    /\ call = Call("none", "none", None, "none", 0)
    /\ io \in {[exists |-> e, loads |-> 0, made |-> FALSE, writes |-> <<>>] :
                    e \in BOOLEAN}

NextQuery == Query

SpecQuery == InitQuery /\ [][NextQuery]_vars

-----------------------------------------------------------------------------
(* prune_by_ids (utils.py), statement by statement: the recursion of       *)
(* _collect_descendants is run on an explicit call stack.  Here ops is the *)
(* stack, a frame [parent_id, next] being a call of _collect_descendants   *)
(* and the place it has reached in parent_map[parent_id]; results lists    *)
(* the ids added to ids_to_remove, in the order of the adds; call.order is *)
(* the order in which the loop visits the set target_ids, call.at how many *)
(* targets it has started.  The documents may hold relIn ids that form a   *)
(* cycle, name the component itself or name nothing.                       *)

MaxPruneItems == 3

\* parent_map.get(parent_id, []): the ids of the components whose relIn.id
\* is parent_id, in document order
parent_map(items, parent_id) ==
    LET children == SelectSeq(items, LAMBDA c : get_rel_parent_id(c) = parent_id)
    IN [k \in 1..Len(children) |-> children[k].id]

\* a guard that lets every child through
never_marked(child_id, marked) == FALSE

\* child_id in ids_to_remove
already_marked(child_id, marked) == child_id \in marked

\* set(target_ids) and the ids added since
ids_to_remove ==
    {call.order[k] : k \in 1..Len(call.order)} \cup {results[k] : k \in 1..Len(results)}

Frame(parent_id, next) == [parent_id |-> parent_id, next |-> next]

PruneComponent(id, parent_id) ==
    [id |-> id, kind |-> "TEXT", orderIndex |-> NoInt,
     relIn |-> IF parent_id = None THEN NoRel ELSE NoOffsets(parent_id),
     items |-> NoItems]

\* every way of parenting up to MaxPruneItems components, "hero" being an
\* id no component has
PruneDocs ==
    UNION {{[k \in 1..n |-> PruneComponent(GenIdSeq[k], parents[k])] :
                parents \in [1..n -> {None, "hero"} \cup {GenIdSeq[k] : k \in 1..n}]} :
           n \in 0..MaxPruneItems}

\* the orders in which one or two targets can be visited
TargetOrders(items) ==
    {<<a>> : a \in RefIds(items)}
    \cup {ab \in RefIds(items) \X RefIds(items) : ab[1] # ab[2]}

PruneCall(order, status, at) ==
    [tool |-> "utils", op |-> "prune", id |-> None, status |-> status,
     at |-> at, order |-> order]

Collecting == pc = "prune" /\ call.status = "collecting"

\* _build_parent_map, ids_to_remove = set(target_ids)
PruneBegin ==
    /\ pc = "idle"
    /\ call.op = "none"
    /\ \E order \in TargetOrders(stored) :
        call' = PruneCall(order, "collecting", 0)
    /\ pc' = "prune"
    /\ page' = stored
    /\ pre' = stored
    /\ ops' = <<>>
    /\ results' = <<>>
    /\ UNCHANGED <<stored, lastSec, io>>

\* for target_id in target_ids: _collect_descendants(target_id)
NextTarget ==
    /\ Collecting
    /\ ops = <<>>
    /\ call.at < Len(call.order)
    /\ ops' = <<Frame(call.order[call.at + 1], 1)>>
    /\ call' = [call EXCEPT !.at = @ + 1]
    /\ UNCHANGED <<stored, pc, page, results, lastSec, pre, io>>

\* a child not yet in ids_to_remove: add it and call _collect_descendants
Descend ==
    /\ Collecting
    /\ ops # <<>>
    /\ LET top == ops[Len(ops)]
           children == parent_map(page, top.parent_id)
       IN /\ top.next <= Len(children)
          /\ ~already_marked(children[top.next], ids_to_remove)
          /\ results' = Append(results, children[top.next])
          /\ ops' = Append([ops EXCEPT ![Len(ops)].next = @ + 1],
                           Frame(children[top.next], 1))
    /\ UNCHANGED <<stored, pc, page, lastSec, pre, call, io>>

\* a child already in ids_to_remove: on to the next child
Skip ==
    /\ Collecting
    /\ ops # <<>>
    /\ LET top == ops[Len(ops)]
           children == parent_map(page, top.parent_id)
       IN /\ top.next <= Len(children)
          /\ already_marked(children[top.next], ids_to_remove)
          /\ ops' = [ops EXCEPT ![Len(ops)].next = @ + 1]
    /\ UNCHANGED <<stored, pc, page, results, lastSec, pre, call, io>>

\* the loop over the children is over: the call returns
Return ==
    /\ Collecting
    /\ ops # <<>>
    /\ ops[Len(ops)].next > Len(parent_map(page, ops[Len(ops)].parent_id))
    /\ ops' = SubSeq(ops, 1, Len(ops) - 1)
    /\ UNCHANGED <<stored, pc, page, results, lastSec, pre, call, io>>

\* _prune and page["items"] = new_items
PruneEnd ==
    /\ Collecting
    /\ ops = <<>>
    /\ call.at = Len(call.order)
    /\ LET gone(c) == c.id \in ids_to_remove \/ get_rel_parent_id(c) \in ids_to_remove
       IN /\ stored' = with_items(SelectSeq(page, LAMBDA c : ~gone(c)))
          /\ page' = stored'
    /\ call' = [call EXCEPT !.status = "ok"]
    /\ pc' = "idle"
    /\ UNCHANGED <<ops, results, lastSec, pre, io>>

InitPrune ==
    /\ stored \in PruneDocs
    /\ pc = "idle"
    /\ page = <<>>
    /\ ops = <<>>
    /\ results = <<>>
    /\ lastSec = None
    /\ pre = <<>>
    /\ call = Call("none", "none", None, "none", 0)
    /\ io = IdleIo

NextPrune ==
    \/ PruneBegin
    \/ NextTarget
    \/ Descend
    \/ Skip
    \/ Return
    \/ PruneEnd

\* prune_by_ids runs on one thread, statement after statement: a statement
\* that can run does run
SpecPrune == InitPrune /\ [][NextPrune]_vars /\ WF_vars(NextPrune)

----------------------------------------------------------------------------
(* Properties *)

BatchEnded == call.tool = "v2" /\ call.op = "end"

\* C1: batch atomicity: when an operation k > 1 of a mutate_components batch
\* fails, the stored page after the call is the stored page before the call.
C1_BatchAtomicity ==
    (BatchEnded /\ \E k \in 2..Len(results) : results[k].shape = "error")
        => stored = pre

\* every sibling group (same relIn.id, or no relIn) holds exactly the
\* orderIndex values 0 .. n-1
SiblingsNumbered(items) ==
    \A k \in 1..Len(items) :
        LET group == {j \in 1..Len(items) :
                        get_rel_parent_id(items[j]) = get_rel_parent_id(items[k])}
        IN /\ \A j \in group : items[j].orderIndex # NoInt
           /\ \A n \in 0..(Cardinality(group) - 1) :
                Cardinality({j \in group : items[j].orderIndex = Some(n)}) = 1

\* C2: order invariant: after a create, remove or reorder completes, every
\* sibling group's orderIndex values are exactly 0 .. n-1, without gaps or
\* duplicates.
C2_OrderInvariant ==
    (call.tool = "tools" /\ call.op \in {"create", "remove", "reorder"}
        /\ call.status = "ok")
        => SiblingsNumbered(stored)

\* the relIn.id chain of component k leads to id within n steps
RECURSIVE LeadsTo(_, _, _, _)
LeadsTo(items, k, id, n) ==
    /\ n > 0
    /\ items[k].relIn # NoRel
    /\ \/ items[k].relIn[1].id = id
       \/ \E j \in 1..Len(items) :
            /\ items[j].id = items[k].relIn[1].id
            /\ LeadsTo(items, j, id, n - 1)

\* C3: descendant removal: after a remove of X the document holds neither X
\* nor a component whose relIn.id chain leads to X.
C3_DescendantRemoval ==
    (call.tool = "tools" /\ call.op = "remove")
        => \A k \in 1..Len(stored) :
            /\ stored[k].id # call.id
            /\ ~LeadsTo(stored, k, call.id, Len(stored))

\* C4: unique ids: no two components of the document have the same id.
C4_UniqueIds ==
    \A i, j \in 1..Len(stored) : i # j => stored[i].id # stored[j].id

\* C5: section parentlessness: after a successful create of a SECTION the
\* stored component has relIn = null, whatever parent the caller named.
C5_SectionParentless ==
    (call.tool = "tools" /\ call.op = "create" /\ call.status = "ok"
        /\ stored[call.at].kind = "SECTION")
        => stored[call.at].relIn = NoRel

\* C6: alias resolution: when a create of the batch carries alias A and a
\* later create has relIn.id = A, the second component's stored relIn.id is
\* the id generated for the first, never the literal A.
C6_AliasResolved ==
    BatchEnded =>
        \A i, j \in 1..Len(ops) :
            (/\ i < j
             /\ ops[i].op = "create" /\ ops[i].alias # None
             /\ results[i].shape = "component"
             /\ ops[j].op = "create" /\ ops[j].ref = ops[i].alias
             /\ results[j].shape = "component")
            => \A k \in 1..Len(stored) :
                    stored[k].id = results[j].id
                        => /\ stored[k].relIn # NoRel
                           /\ stored[k].relIn[1].id = results[i].id
                           /\ stored[k].relIn[1].id # ops[i].alias

\* the edit of a found component, with a payload, that raised: the merged
\* component failed the CreateInput validation
EditFailedValidation(k) ==
    /\ ops[k].op = "edit"
    /\ ops[k].id # None
    /\ ops[k].keys # {}
    /\ results[k] = Raised("edit")

\* C7: a failed edit does not persist: when the one edit of a batch merges a
\* payload that fails schema validation, its result carries an error and the
\* stored page after the call equals the stored page before it.
C7_FailedEditNotPersisted ==
    (BatchEnded /\ Len(ops) = 1 /\ EditFailedValidation(1))
        => stored = pre

\* result entry r answers operation o
Answers(r, o) ==
    CASE o.op = "create" -> r.shape = "component" \/ r = Raised("create")
      [] o.op = "edit" ->
            \/ r.shape = "component" /\ r.id = o.id
            \/ r.shape = "error" /\ r.op = "edit" /\ r.id \in {o.id, None}
      [] o.op = "remove" ->
            \/ r.shape = "remove" /\ r.id = o.id
            \/ r = Raised("remove")
      [] o.op = "reorder" ->
            \/ r.shape = "reorder" /\ r.id = o.id
            \/ r = Raised("reorder")
      [] OTHER -> FALSE

\* C8: mutate_components returns one result entry per input operation, in
\* the order of the operations, whether the operation succeeded, reported
\* not-found or raised.
C8_OneResultPerOperation ==
    /\ Len(results) = Len(ops)
    /\ \A i \in 1..Len(ops) : Answers(results[i], ops[i])

\* a batch returned after an edit of an unknown id (not found) and a remove
\* without id (raised)
C8_Witness ==
    /\ BatchEnded
    /\ Len(ops) = 2
    /\ results[1] = Result("error", "edit", "hero", FALSE)
    /\ results[2] = Raised("remove")

\* the sections of a document, and those of them with the highest orderIndex
\* (a missing orderIndex counting as -1)
Sections(doc) == {i \in 1..Len(doc) : doc[i].kind = "SECTION"}

Rank(c) == IF c.orderIndex = NoInt THEN -1 ELSE c.orderIndex[1]

Highest(doc) ==
    {i \in Sections(doc) : \A j \in Sections(doc) : Rank(doc[j]) <= Rank(doc[i])}

HeaderAnchor == <<[id |-> DEFAULT_HEADER_ID, below |-> <<0>>]>>

\* a step that created a section: the document it started from, the one it
\* left and the new component (no payload of SpecGeom carries relTo)
SectionCreated ==
    /\ call'.op = "create"
    /\ call'.status = "ok"
    /\ (IF call'.tool = "tools" THEN stored' ELSE page')[call'.at].kind = "SECTION"

Before == IF call'.tool = "tools" THEN stored ELSE page

NewSection == (IF call'.tool = "tools" THEN stored' ELSE page')[call'.at]

\* new.top - (L.top + L.height)
GapBelow(L, new) == <<new.top[1] - (L.top[1] + L.height[1])>>

HasGap(L, new) == L.top # NoInt /\ L.height # NoInt /\ new.top # NoInt

Placed ==
    /\ call.op = "create"
    /\ call.status = "ok"
    /\ call.tool \in {"tools", "utils"}
    /\ (IF call.tool = "tools" THEN stored ELSE page)[call.at].relIn # NoRel

Child == (IF call.tool = "tools" THEN stored ELSE page)[call.at]

Parent ==
    LET doc == IF call.tool = "tools" THEN stored ELSE page
    IN doc[CHOOSE p \in 1..Len(doc) :
                /\ doc[p].id = Child.relIn[1].id
                /\ \A q \in 1..(p - 1) : doc[q].id # Child.relIn[1].id]

FullBox(c) == c.left # NoInt /\ c.top # NoInt /\ c.width # NoInt /\ c.height # NoInt

\* C10: round-trip offset law: when create computes relIn for a child with
\* an absolute box under a parent with an absolute box, the parent box plus
\* the relIn offsets give back the child's box: pLeft + relIn.left = left,
\* pTop + relIn.top = top, pLeft + pWidth + relIn.right = left + width and
\* pTop + pHeight + relIn.bottom = top + height.
C10_RoundTripOffsets ==
    (Placed /\ FullBox(Child) /\ FullBox(Parent)) =>
        LET r == Child.relIn[1]
        IN /\ r.left # NoInt /\ r.top # NoInt /\ r.right # NoInt /\ r.bottom # NoInt
           /\ Parent.left[1] + r.left[1] = Child.left[1]
           /\ Parent.top[1] + r.top[1] = Child.top[1]
           /\ Parent.left[1] + Parent.width[1] + r.right[1]
                = Child.left[1] + Child.width[1]
           /\ Parent.top[1] + Parent.height[1] + r.bottom[1]
                = Child.top[1] + Child.height[1]

\* a child wider than its parent and starting left of it
C10_Witness ==
    /\ Placed /\ FullBox(Child) /\ FullBox(Parent)
    /\ Child.kind = "TEXT"
    /\ Child.width[1] > Parent.width[1]
    /\ Child.relIn[1].left = <<-1>>

\* the document a step of a tool or of a batch works on, after the step
After == IF call'.tool = "tools" THEN stored' ELSE page'

\* the sibling group of parent_id, in document order
Group(doc, parent_id) ==
    SelectSeq(doc, LAMBDA c : get_rel_parent_id(c) = parent_id)

\* the members of the group named in order_ids, in the order given, each once
RECURSIVE NamedMembers(_, _, _)
NamedMembers(group, order_ids, seen) ==
    IF order_ids = <<>> THEN <<>>
    ELSE LET h == Head(order_ids)
         IN (IF h \in seen THEN <<>> ELSE SelectSeq(group, LAMBDA c : c.id = h))
                \o NamedMembers(group, Tail(order_ids), seen \cup {h})

ExpectedOrder(doc, parent_id, order_ids) ==
    NamedMembers(Group(doc, parent_id), order_ids, {})
        \o SelectSeq(Group(doc, parent_id),
                     LAMBDA c : \A k \in 1..Len(order_ids) : c.id # order_ids[k])

\* C11: reorder result: reorder(parentId, orderedIds) leaves the sibling
\* group of parentId as the members named in orderedIds, in the order given,
\* followed by the members not named, in their prior relative order, with
\* orderIndex 0 .. n-1 in that order; ids that are not members do nothing.
C11_ReorderResult ==
    [][\A parent_id \in Ids(stored) \cup {None}, order_ids \in OrderInputs(stored) :
        ReorderCall(parent_id, order_ids) =>
            LET got == Group(stored', parent_id)
                want == ExpectedOrder(stored, parent_id, order_ids)
            IN /\ Len(got) = Len(want)
               /\ \A k \in 1..Len(want) :
                    /\ got[k].id = want[k].id
                    /\ got[k].orderIndex = Some(k - 1)
     ]_vars

\* an edit step of one of the three edit paths
EditStep(id, upd) ==
    \/ EditCall(id, upd)
    \/ ExecuteEdit(id, upd)
    \/ MutateEdit(id, upd)

EditPayloads == RichEditInputs(stored) \cup RichEditInputs(page)

\* the payload supplies id or parent_id, or a kind that is not the target's
SuppliesForbidden(upd, target) ==
    \/ "id" \in upd.keys /\ upd.id # None
    \/ "parent_id" \in upd.keys /\ upd.parent_id # None
    \/ "kind" \in upd.keys /\ upd.kind # None /\ upd.kind # target.kind

\* C12: edit never changes identity: after an edit (the edit tool,
\* execute_edit_operation, an edit operation of mutate_components) the
\* target's id and kind are what they were, and a payload that supplies id,
\* parent_id, before_id or after_id, or another kind, is rejected.
C12_EditKeepsIdentity ==
    [][call'.op = "edit" =>
        \A upd \in EditPayloads :
            EditStep(call'.id, upd) =>
                LET idx == find_component_by_id(Before, call'.id)
                IN idx # 0 =>
                    /\ After[idx].id = Before[idx].id
                    /\ After[idx].kind = Before[idx].kind
                    /\ SuppliesForbidden(upd, Before[idx]) =>
                            /\ call'.status = "raised"
                            /\ After = Before
     ]_vars

\* C13: referential integrity: every non-null relIn.id and relTo.id of every
\* component of the document names a component of the document, or is the
\* header anchor id.
C13_ReferentialIntegrity ==
    \A k \in 1..Len(stored) :
        /\ (stored[k].relIn # NoRel /\ stored[k].relIn[1].id # None)
            => stored[k].relIn[1].id \in Ids(stored) \cup {DEFAULT_HEADER_ID}
        /\ (stored[k].relTo # NoRel /\ stored[k].relTo[1].id # None)
            => stored[k].relTo[1].id \in Ids(stored) \cup {DEFAULT_HEADER_ID}

\* C14: every non-SECTION component has a parent: each component whose kind
\* is not SECTION has a non-null relIn with a non-null id (a create that
\* names no parent for it is rejected and inserts nothing).
C14_NonSectionHasParent ==
    \A k \in 1..Len(stored) :
        stored[k].kind # "SECTION"
            => stored[k].relIn # NoRel /\ stored[k].relIn[1].id # None

\* C15: removing a nonexistent id is a no-op: a remove whose id names no
\* component returns false and leaves the components, their fields and
\* their order as they were.
C15_RemoveMissingIsNoOp ==
    [][\A id \in RefIds(stored) :
        (RemoveCall(id) /\ id \notin Ids(stored)) =>
            /\ call'.status = "none"
            /\ stored' = stored
     ]_vars

Fields ==
    {"id", "kind", "orderIndex", "wrap", "left", "top", "width", "height",
     "relIn", "relTo", "items"}

\* after is before with exactly the payload's fields set on component idx
ShallowMerge(before, after, idx, upd) ==
    /\ Len(after) = Len(before)
    /\ \A k \in 1..Len(before) : k # idx => after[k] = before[k]
    /\ \A f \in Fields :
        after[idx][f] = IF f \in upd.keys THEN upd[f] ELSE before[idx][f]

\* C16: edit is a shallow merge with no other effect: a successful edit sets
\* on the target exactly the fields named in the payload and leaves every
\* other field of the target, every other component and the order of the
\* list untouched.
C16_EditShallowMerge ==
    [][(call'.op = "edit" /\ call'.status = "ok") =>
        \A upd \in EditPayloads :
            EditStep(call'.id, upd) =>
                ShallowMerge(Before, After, find_component_by_id(Before, call'.id), upd)
     ]_vars

\* the writes of the page file a batch is allowed: none while it runs, one
\* when it returns, after its last operation
CommitOnly(first) ==
    /\ pc = "v2" => io.loads = 1 /\ io.writes = first
    /\ BatchEnded => io.loads = 1 /\ io.writes = Append(first, Len(ops))

\* C17 as stated: single load and single commit per batch: the page is loaded
\* once before the first operation and written to storage once, after the
\* last operation; no write happens between two operations.
C17_SingleLoadSingleCommit == CommitOnly(<<>>)

\* C17 amended: in every mutate_components call the page is loaded once,
\* before the first operation, and save_page writes it once, after the last
\* operation; no write happens between two operations; when the page file is
\* missing (or empty, or not JSON) load_page itself writes a fresh empty page
\* before the first operation, so that such a call writes storage twice.
C17_SingleLoadSingleCommitAmended ==
    CommitOnly(IF io.made THEN <<0>> ELSE <<>>)

\* a batch of two operations on an existing page file returned: one write,
\* after the second operation
C17_Witness ==
    /\ BatchEnded
    /\ Len(ops) = 2
    /\ ~io.made
    /\ io.loads = 1
    /\ io.writes = <<2>>

\* C20: edit keeps the order invariant: if every sibling group is numbered
\* 0 .. n-1 before an edit, every sibling group is after it, for every
\* payload the edit accepts, without renumbering.
C20_EditKeepsOrder ==
    [][(call'.op = "edit" /\ call'.status = "ok" /\ SiblingsNumbered(Before))
        => SiblingsNumbered(After)
     ]_vars

\* C18: defaults never override a supplied field: for every field with a
\* kind-specific default, if the create payload contains the field, the
\* created component holds the caller's value, for every value the schema
\* accepts (null among them); the default appears only when it is left out.
C18_DefaultsNeverOverride ==
    (call.tool = "builder" /\ call.op = "build") =>
        LET payload == ops[1].arg.payload
            component == page[1]
        IN \A f \in get_component_defaults(ops[1].arg.kind).keys :
            f \in payload.keys =>
                /\ f \in component.keys
                /\ component.val[f] = payload.val[f]

\* C19: idempotent style normalization: for every component whose style
\* fields hold nested mappings (or, for styles, lists of mappings) with
\* kebab-case, underscore or camelCase keys, normalizing twice gives what
\* normalizing once gives.
C19_IdempotentNormalization ==
    (call.tool = "builder" /\ call.op = "normalize") =>
        /\ page[1] = normalize_style_fields(ops[1].arg)
        /\ normalize_style_fields(normalize_style_fields(ops[1].arg))
                = normalize_style_fields(ops[1].arg)

\* a style mapping with the key "-a_a" was normalized to the key "AA"
C19_Witness ==
    /\ call.tool = "builder" /\ call.op = "normalize"
    /\ ops[1].arg.style = Dict(<<<<<<"-", "a", "_", "a">>, Str("x")>>>>)
    /\ page[1].style = Dict(<<<<<<"A", "A">>, Str("x")>>>>)

\* how many components of the document carry this id
IdCount(doc, id) == Cardinality({k \in 1..Len(doc) : doc[k].id = id})

UniqueIds(doc) == \A i, j \in 1..Len(doc) : i # j => doc[i].id # doc[j].id

\* C26: reorder neither loses nor duplicates components: for every document
\* with unique ids and every order_ids list (lists that repeat an id among
\* them), the multiset of component ids after the reorder is the multiset
\* before it, and every component outside the reordered sibling group keeps
\* its position in the flat list.
C26_ReorderKeepsComponents ==
    [][(call'.op = "reorder" /\ UniqueIds(Before)) =>
        /\ \A id \in Ids(Before) \cup Ids(After) :
                IdCount(After, id) = IdCount(Before, id)
        /\ \A k \in 1..Len(Before) :
                ~matches_parent(Before[k], call'.id)
                    => k <= Len(After) /\ After[k].id = Before[k].id
     ]_vars

\* the ids a remove of id may delete: id and the ids of the components whose
\* relIn.id chain leads to it
Doomed(doc, id) ==
    {id} \cup {doc[k].id : k \in {j \in 1..Len(doc) : LeadsTo(doc, j, id, Len(doc))}}

\* the ids of the components of doc whose id is not in ids, in document order
IdsOutside(doc, ids) ==
    LET kept == SelectSeq(doc, LAMBDA c : c.id \notin ids)
    IN [k \in 1..Len(kept) |-> kept[k].id]

\* C22: remove deletes nothing else: a remove of X deletes only X and the
\* components whose relIn.id chain leads to X, every other component stays
\* in the same relative order, and removing a leaf (a component no other
\* component names in relIn.id) deletes exactly one record.
C22_RemoveDeletesNothingElse ==
    [][(call'.op = "remove" /\ call'.status = "ok") =>
        /\ IdsOutside(After, Doomed(Before, call'.id))
                = IdsOutside(Before, Doomed(Before, call'.id))
        /\ (/\ call'.id \in Ids(Before)
            /\ \A k \in 1..Len(Before) : get_rel_parent_id(Before[k]) # call'.id)
                => Len(After) = Len(Before) - 1
     ]_vars

\* the document without the entry at place at, the orderIndex values left out
Others(doc, at) ==
    [k \in 1..(Len(doc) - 1) |->
        [doc[IF k < at THEN k ELSE k + 1] EXCEPT !.orderIndex = NoInt]]

Unnumbered(doc) == [k \in 1..Len(doc) |-> [doc[k] EXCEPT !.orderIndex = NoInt]]

\* C21: insert placement: a create with before_id = X, X in the flat list,
\* puts the new component immediately before X; with after_id = X,
\* immediately after X; with neither, or with an id that is not in the list,
\* at the end; the components that were there keep their relative order.
C21_InsertPlacement ==
    [][(call'.op = "create" /\ call'.status = "ok") =>
        \A kw \in PlaceInputs(Before) :
            (CreateCall(kw) \/ ExecuteCreate(kw) \/ MutateCreate(None, <<kw>>)) =>
                LET at == call'.at
                    X == IF kw.before_id # None THEN kw.before_id ELSE kw.after_id
                IN /\ Len(After) = Len(Before) + 1
                   /\ After[at].id = call'.id
                   /\ Others(After, at) = Unnumbered(Before)
                   /\ (kw.before_id \in Ids(Before))
                        => at < Len(After) /\ After[at + 1].id = kw.before_id
                   /\ (kw.after_id \in Ids(Before))
                        => at > 1 /\ After[at - 1].id = kw.after_id
                   /\ (X \notin Ids(Before)) => at = Len(After)
     ]_vars

\* a component was inserted before the second of three, named by before_id
C21_Witness ==
    /\ call.op = "create" /\ call.status = "ok"
    /\ Len(stored) = 3
    /\ call.at = 2
    /\ stored[2].id = call.id
    /\ stored[2].relTo # NoRel
    /\ stored[2].relTo[1].id = stored[3].id

\* C29: anchor substitution never replaces a real reference: when a SECTION
\* is created with an explicit relTo whose id names a component of the
\* document, the stored relTo.id is that id; the header anchor id is put in
\* its place only for ids that name no component of the document.
C29_AnchorKeepsRealReference ==
    [][(call'.op = "create" /\ call'.status = "ok") =>
        \A kw \in PlaceInputs(Before) :
            (/\ CreateCall(kw) \/ ExecuteCreate(kw) \/ MutateCreate(None, <<kw>>)
             /\ kw.kind = "SECTION"
             /\ kw.relTo # NoRel
             /\ kw.relTo[1].id \in Ids(Before))
                => /\ After[call'.at].relTo # NoRel
                   /\ After[call'.at].relTo[1].id = kw.relTo[1].id
     ]_vars

\* a step that ran a create with auto_position: the operation as sent, the
\* parent it used and the component it made
AutoStep ==
    /\ call'.tool = "v2" /\ call'.op = "create"
    /\ "auto_position" \in DOMAIN call'

AutoOp == call'

AutoParent == page[find_component_by_id(page, ops'[Len(ops')].ref)]

AutoNew == page'[call'.at]

\* the top edge of a child of parent on the page: its top when it has one,
\* else the parent's top plus its relIn.top
TopEdge(c, parent) ==
    IF c.top # NoInt THEN Val(c.top)
    ELSE get(parent.top, 0) + get(c.relIn[1].top, 0)

BottomEdge(c, parent) == TopEdge(c, parent) + get(c.height, 0)

\* C23: below_last_child: when the parent has no component whose relIn.id is
\* the parent's id, the new component gets relIn.top = gap_px and relTo =
\* null; otherwise the strategy picks the child with the greatest top +
\* height, places the new component gap_px below that child's bottom edge
\* and sets relTo = {id: that child's id, below: gap_px}.
C23_BelowLastChild ==
    [][(/\ AutoStep
        /\ call'.status = "ok"
        /\ AutoOp.auto_position.strategy = "below_last_child") =>
            LET gap_px == AutoOp.auto_position.gap_px
                kids == {k \in 1..Len(page) :
                            get_rel_parent_id(page[k]) = AutoParent.id}
            IN IF kids = {}
               THEN /\ AutoNew.relIn[1].top = Some(gap_px)
                    /\ AutoNew.relTo = NoRel
               ELSE \E k \in kids :
                    /\ \A j \in kids : BottomEdge(page[j], AutoParent)
                                        <= BottomEdge(page[k], AutoParent)
                    /\ AutoNew.relTo = RelTo(page[k].id, Some(gap_px))
                    /\ get(AutoParent.top, 0) + Val(AutoNew.relIn[1].top)
                            = BottomEdge(page[k], AutoParent) + gap_px
     ]_vars

\* C24: auto-position failures insert nothing: a create with auto_position
\* fails with an error, and adds no component, when the parent id does not
\* resolve to a component, when the strategy is not one of the five known,
\* or, for stack_below, when the sibling id is absent, does not resolve, or
\* names a component whose relIn.id is not the parent id.
C24_AutoPositionFailures ==
    [][AutoStep =>
        LET auto_pos == AutoOp.auto_position
            parent_id == IF auto_pos.parent_id = None THEN lastSec
                         ELSE auto_pos.parent_id
            sidx == find_component_by_id(page, auto_pos.sibling_id)
        IN (\/ parent_id \notin Ids(page)
            \/ auto_pos.strategy \notin
                    {"below_last_child", "above_first_child", "centered",
                     "fill_width", "stack_below"}
            \/ /\ auto_pos.strategy = "stack_below"
               /\ \/ auto_pos.sibling_id = None
                  \/ sidx = 0
                  \/ get_rel_parent_id(page[sidx]) # parent_id)
            => /\ call'.status = "raised"
               /\ results'[Len(results')].shape = "error"
               /\ page' = page
     ]_vars

\* a stack_below under a parent of the page, naming the parent itself as the
\* sibling, failed and left the page of two components as it was
C24_Witness ==
    /\ call.tool = "v2" /\ call.op = "create" /\ call.status = "raised"
    /\ Len(page) = 2
    /\ "auto_position" \in DOMAIN call
    /\ call.auto_position.strategy = "stack_below"
    /\ call.auto_position.parent_id \in Ids(page)
    /\ call.auto_position.sibling_id = call.auto_position.parent_id
    /\ results[Len(results)].shape = "error"

\* the ids of the sections the running batch has created, oldest first
CreatedSections ==
    SelectSeq([k \in 1..Len(ops) |->
                    IF /\ ops[k].op = "create"
                       /\ results[k].shape = "component"
                       /\ page[find_component_by_id(page, results[k].id)].kind = "SECTION"
                    THEN results[k].id ELSE None],
              LAMBDA id : id # None)

C30_ConsecutivePlacements ==
    [][(/\ AutoStep
        /\ call'.status = "ok"
        /\ AutoOp.auto_position.strategy = "below_last_child"
        /\ AutoOp.payload.top = NoInt) =>
            LET gap_px == AutoOp.auto_position.gap_px
                kids == _get_children(AutoParent, page)
                first == kids[1]
            IN (/\ Len(kids) = 1
                /\ first.top = NoInt /\ first.left = NoInt
                /\ first.relTo = NoRel
                /\ first.relIn[1].left = Some(0)
                /\ first.relIn[1].top = Some(gap_px)
                /\ first.relIn[1].right
                        = Some(-(get(AutoParent.width, 0) - Val(first.width))))
                => AutoNew.relIn[1].top
                    = Some(Val(first.relIn[1].top) + Val(first.height) + gap_px)
     ]_vars

QueryStep == call.tool = "v2" /\ call.op = "get"

\* needle occurs in hay at some offset, letter case apart
OccursIgnoringCase(needle, hay) ==
    \E off \in 0..(Len(hay) - Len(needle)) :
        \A j \in 1..Len(needle) : lower(hay[off + j]) = lower(needle[j])

\* the component satisfies every filter the call supplied
Satisfies(c) ==
    /\ call.ids # <<>> => c.id \in call.ids[1]
    /\ call.parent_id # None =>
            c.relIn # NoRel /\ c.relIn[1].id = call.parent_id
    /\ call.kinds # <<>> => c.kind \in call.kinds[1]
    /\ call.text_contains # <<>> =>
            \E f \in {"text", "content", "title", "name"} :
                OccursIgnoringCase(call.text_contains[1], text_of(c, f))

NoFilter ==
    /\ call.ids = <<>> /\ call.parent_id = None
    /\ call.kinds = <<>> /\ call.text_contains = <<>>

PruneRunning == call.tool = "utils" /\ call.op = "prune"

\* no id was added to the removal set twice, and none that was in it from
\* the start
AddedAtMostOnce ==
    PruneRunning =>
        /\ \A j, k \in 1..Len(results) : results[j] = results[k] => j = k
        /\ \A k \in 1..Len(results) :
                results[k] \notin {call.order[j] : j \in 1..Len(call.order)}

\* C27: remove terminates on cyclic parent links: prune_by_ids terminates
\* for every finite document, cycles of relIn.id references and components
\* naming themselves as parent included, and each component is added to the
\* removal set at most once.
C27_PruneTerminates ==
    /\ []AddedAtMostOnce
    /\ <>(PruneRunning /\ call.status = "ok")

\* the prune of g1 ended on a document in which g1 and g2 name each other
\* as parent: g2 was added once, and both are gone
C27_Witness ==
    /\ PruneRunning /\ call.status = "ok"
    /\ Len(pre) = 2
    /\ get_rel_parent_id(pre[1]) = pre[2].id
    /\ get_rel_parent_id(pre[2]) = pre[1].id
    /\ call.order = <<"g1">>
    /\ results = <<"g2">>
    /\ stored = <<>>

====
